---- MODULE Spec2Model ----
(***************************************************************************)
(* Model of the bitcoin-p2p connection lifecycle engine.                   *)
(*                                                                         *)
(*   src/src/handshake.rs : ConnectionConfig::start_handshake,             *)
(*                          InitializedHandshake::negotiate                *)
(*   src/src/net.rs       : ConnectionExt::handshake (the supervisor)      *)
(*   src/src/lib.rs       : FeelerData, Preferences, ConnectionMetrics     *)
(*                                                                         *)
(* Specification Spec is the version handshake: the supervisor writes our  *)
(* version, reads the peer's first message, runs start_handshake, writes   *)
(* the upgrade messages, then runs negotiate on every further inbound      *)
(* message until Verack (Completed) or an error (Failed).                  *)
(*                                                                         *)
(* Specification ConnSpec is the established connection: the writer actor  *)
(* (OpenWriter::maintain_connection), the writer handle (send_message,     *)
(* take_errors, drop), the reader (ConnectionReader::read_message) and the *)
(* liveness query of the metrics handle (ping_timed_out), over a clock.    *)
(*                                                                         *)
(* Specification ReaderSpec is the reader alone, on the announcements and  *)
(* the timed messages of the peer. Specification RateSpec is the rate      *)
(* accumulators (MessageRate, TimedMessages) driven as the unit tests of   *)
(* lib.rs drive them. Specification FrameSpec is the V1 transport          *)
(* (WriteTransport, ReadTransport) on a stream of bytes.                   *)
(* Specification LockSpec is the liveness lock step by step: the actor's   *)
(* check taken apart, against the reader's Pong arm and ping_timed_out.    *)
(***************************************************************************)
EXTENDS Integers, Sequences, FiniteSets, TLC

VARIABLES
    config,        \* the ConnectionConfig the handshake consumes
    nonce,         \* our connection nonce (net.rs: let nonce = random())
    pc,            \* position of ConnectionExt::handshake
    handshake,     \* Option<InitializedHandshake>: <<>> or <<session>>
    wire,          \* messages written to the tcp stream, in order
    started,       \* Option: the call of start_handshake: message and return
    negotiated,    \* Option: the call of negotiate in the last turn of the loop
    result,        \* the error handshake returned (NoError while none)
    returned,      \* Option<handles>: what handshake returned on success
    writer_spawned,\* TRUE once std::thread::spawn(maintain_connection) ran
    observed,      \* history: feature announcements negotiate has processed
    now,           \* the clock (Instant::now()), in seconds
    outbound_ping_state, \* the shared OutboundPing
    channel,       \* the mpsc channel: messages sent and not yet received
    sender,        \* the ConnectionWriter handle, owner of the only Sender
    writer,        \* the writer actor: its position and its terminal result
    written,       \* what the writer actor wrote to the stream, in order
    submitted,     \* history: the messages send_message accepted, in order
    ret,           \* history: the last call on a handle and what it returned
    their_preferences, \* the shared Preferences of reader and metrics handle
    timed_messages,    \* TimedMessages: category -> MessageRate
    recorded,      \* history: the add_messages calls: category, count, time
    stream,        \* the bytes in flight from the peer to the read transport
    eof,           \* the peer has closed its side of the stream
    sent,          \* history: the frames written: message, magic, bytes
    received       \* history: what read_message returned, call after call

hvars == <<config, nonce, pc, handshake, wire, started, negotiated,
           result, returned, writer_spawned, observed>>
cvars == <<now, outbound_ping_state, channel, sender, writer, written,
           submitted, ret>>
rvars == <<their_preferences, timed_messages, recorded>>
fvars == <<stream, eof, sent, received>>
vars == <<hvars, cvars, rvars, fvars>>

----------------------------------------------------------------------------
(* Protocol constants of the p2p crate used by handshake.rs.               *)

WTXID_RELAY_VERSION == 70016
SENDADDRV2_VERSION == 70016
SENDHEADERS_VERSION == 70012
MIN_PEER_PROTO_VERSION == 31800
PROTOCOL_VERSION == WTXID_RELAY_VERSION

(* ServiceFlags are modelled as the set of bits that are set.              *)
ServiceNone == {}
ServiceNetwork == {"NETWORK"}
ServiceWitness == {"WITNESS"}
SERVICES == ServiceNone

(* Bounds of the model.                                                    *)
MaxCmpctVersion == 1
MaxHeight == 1
MaxFee == 1
BROADCAST_MIN == 1
UnixTime == 10
MaxSkew == 1
\* The width the model gives to i64, and the range that goes with it.
I64Bits == 6
I64_MIN == -(2 ^ (I64Bits - 1))
I64_MAX == 2 ^ (I64Bits - 1) - 1

\* Only the equality of two nonces is ever read: two values give every case.
Nonces == {1, 2}
PeerVersions == {MIN_PEER_PROTO_VERSION - 1, MIN_PEER_PROTO_VERSION,
                 SENDHEADERS_VERSION, WTXID_RELAY_VERSION,
                 WTXID_RELAY_VERSION + 1}
ExpectedVersions == {209, SENDHEADERS_VERSION, WTXID_RELAY_VERSION}
ServiceSets == {ServiceNone, ServiceNetwork, ServiceNetwork \cup ServiceWitness}
ExpectedServiceSets == {ServiceNone, ServiceNetwork \cup ServiceWitness}
Timestamps == {UnixTime - MaxSkew, UnixTime + MaxSkew}
Heights == {0, MaxHeight}
CmpctVersions == 0..MaxCmpctVersion
FeeRates == {BROADCAST_MIN, BROADCAST_MIN + MaxFee}

----------------------------------------------------------------------------
(* NetworkMessage: one record shape for every message, so that any two     *)
(* messages can be compared; a field a message does not carry is at its    *)
(* default.                                                                *)

BaseMsg(c) ==
    [cmd |-> c, version |-> 0, services |-> ServiceNone, timestamp |-> 0, nonce |-> 0,
     start_height |-> 0, send_compact |-> FALSE, cmpct_version |-> 0, fee |-> 0,
     addrs |-> 0]

Version(v, s, t, n, h) ==
    [BaseMsg("version") EXCEPT !.version = v, !.services = s, !.timestamp = t,
                               !.nonce = n, !.start_height = h]
Verack == BaseMsg("verack")
WtxidRelay == BaseMsg("wtxidrelay")
SendAddrV2 == BaseMsg("sendaddrv2")
SendHeaders == BaseMsg("sendheaders")
Alert == BaseMsg("alert")
GetAddr == BaseMsg("getaddr")
SendCmpct(b, v) == [BaseMsg("sendcmpct") EXCEPT !.send_compact = b, !.cmpct_version = v]
FeeFilter(f) == [BaseMsg("feefilter") EXCEPT !.fee = f]
Ping(n) == [BaseMsg("ping") EXCEPT !.nonce = n]
Pong(n) == [BaseMsg("pong") EXCEPT !.nonce = n]
Block == BaseMsg("block")
Headers == BaseMsg("headers")
CFilter == BaseMsg("cfilter")
\* Addr and AddrV2 carry a list: only its length is read (net.rs 295, 300).
Addr(n) == [BaseMsg("addr") EXCEPT !.addrs = n]
AddrV2(n) == [BaseMsg("addrv2") EXCEPT !.addrs = n]

VersionMessages ==
    {Version(v, s, t, n, h) : v \in PeerVersions, s \in ServiceSets,
                              t \in Timestamps, n \in Nonces, h \in Heights}
SendCmpctMessages == {SendCmpct(v > 0, v) : v \in CmpctVersions}
FeatureMessages == {WtxidRelay, SendAddrV2, SendHeaders} \cup SendCmpctMessages
OtherMessages == {Ping(1), BaseMsg("inv")}
SomeVersion == Version(PROTOCOL_VERSION, ServiceNone, UnixTime, 2, 0)
\* The timestamp is an i64 off the wire: the peer may send the lowest one.
ExtremeVersion == Version(PROTOCOL_VERSION, ServiceNone, I64_MIN, 2, 0)

(* What the peer may send first, and what it may send afterwards.          *)
FirstMessages ==
    VersionMessages \cup {SomeVersion, ExtremeVersion, Verack} \cup FeatureMessages
    \cup OtherMessages
LaterMessages == {Verack, SomeVersion} \cup FeatureMessages \cup OtherMessages

(* handshake::Error and net::Error, one record shape for all.              *)
Err(k) == [kind |-> k, cmd |-> "", version |-> 0, services |-> ServiceNone]
NoError == Err("none")
IrrelevantMessage(c) == [Err("IrrelevantMessage") EXCEPT !.cmd = c]
ConnectionToSelf == Err("ConnectionToSelf")
TooLowVersion(v) == [Err("TooLowVersion") EXCEPT !.version = v]
MissingService(s) == [Err("MissingService") EXCEPT !.services = s]
MissingVersion == Err("MissingVersion")
Io == Err("Io")
TransportErrors == {Io, Err("UnexpectedMagic"), Err("Deserialize")}

----------------------------------------------------------------------------
(* handshake.rs                                                            *)

Min(a, b) == IF a <= b THEN a ELSE b

\* Variant: one common bit is enough.
has_any(self, flags) == flags = {} \/ (self \cap flags) # {}

\* ServiceFlags::has: every bit of flags is set in self.
has(self, flags) == flags \subseteq self

\* Preferences::new / Preferences::default
Preferences_new ==
    [sendheaders |-> FALSE, sendaddrv2 |-> FALSE,
     sendcmpct |-> [send_compact |-> FALSE, version |-> 0],
     sendwtxid |-> FALSE]

\* ConnectionConfig::new followed by the builder calls
\* decrease_version_requirement, set_service_requirement, send_cmpct,
\* fee_filter and request_addr.
ConnectionConfig(ev, es, sc, ff, ra) ==
    [our_version |-> PROTOCOL_VERSION, our_services |-> SERVICES,
     expected_version |-> ev, expected_services |-> es,
     send_cmpct |-> sc, our_height |-> 0, fee_filter |-> ff,
     request_addr |-> ra]

\* The configurations the handshake is run with: every admission
\* requirement with the default finalization values, and every finalization
\* value with the default admission requirement.
CmpctConfig(cv) == [send_compact |-> (cv > 0), version |-> cv]
Configs ==
    {ConnectionConfig(ev, es, CmpctConfig(0), BROADCAST_MIN, FALSE) :
        ev \in ExpectedVersions, es \in ExpectedServiceSets}
    \cup {ConnectionConfig(PROTOCOL_VERSION, SERVICES, CmpctConfig(cv), ff, ra) :
        cv \in CmpctVersions, ff \in FeeRates, ra \in BOOLEAN}

\* ConnectionConfig::build_our_version
build_our_version(cfg, unix_time, n) ==
    Version(cfg.our_version, cfg.our_services, unix_time, n, cfg.our_height)

\* Variant: a version is rejected only when it is below both floors.
TooLow_below_both(cfg, version) ==
    /\ version.version < cfg.expected_version
    /\ version.version < MIN_PEER_PROTO_VERSION

\* The version test of start_handshake (lines 147-148).
TooLow(cfg, version) ==
    \/ version.version < cfg.expected_version
    \/ version.version < MIN_PEER_PROTO_VERSION

\* Variant: the else branch of the send-headers test is missing.
UpgradeMessages_no_alert(effective_version) ==
    (IF effective_version >= WTXID_RELAY_VERSION THEN <<WtxidRelay>> ELSE <<>>)
    \o (IF effective_version >= SENDADDRV2_VERSION THEN <<SendAddrV2>> ELSE <<>>)
    \o (IF effective_version >= SENDHEADERS_VERSION THEN <<SendHeaders>> ELSE <<>>)

\* Variant: the address opt-in is pushed before the witness-id opt-in.
UpgradeMessages_swapped(effective_version) ==
    (IF effective_version >= SENDADDRV2_VERSION THEN <<SendAddrV2>> ELSE <<>>)
    \o (IF effective_version >= WTXID_RELAY_VERSION THEN <<WtxidRelay>> ELSE <<>>)
    \o (IF effective_version >= SENDHEADERS_VERSION
          THEN <<SendHeaders>> ELSE <<Alert>>)

\* The upgrade messages of start_handshake (lines 156-167).
UpgradeMessages(effective_version) ==
    (IF effective_version >= WTXID_RELAY_VERSION THEN <<WtxidRelay>> ELSE <<>>)
    \o (IF effective_version >= SENDADDRV2_VERSION THEN <<SendAddrV2>> ELSE <<>>)
    \o (IF effective_version >= SENDHEADERS_VERSION
          THEN <<SendHeaders>> ELSE <<Alert>>)

\* A result of i64 arithmetic that does not fit.
Overflows(x) == x < I64_MIN \/ x > I64_MAX

\* What a build without overflow checks stores: the two's complement wrap.
WrapI64(x) == ((x - I64_MIN) % (2 ^ I64Bits)) + I64_MIN

\* unix_time.as_secs_f64() as i64 - version.timestamp (line 168)
net_time_difference(unix_time, version) == WrapI64(unix_time - version.timestamp)

\* The session start_handshake builds (lines 155, 168-182).
InitializedHandshake(cfg, unix_time, version, n) ==
    [feeler |-> [effective_version |-> Min(cfg.our_version, version.version),
                 services |-> version.services,
                 net_time_difference |-> net_time_difference(unix_time, version),
                 reported_height |-> version.start_height,
                 nonce |-> n],
     their_preferences |-> Preferences_new,
     send_cmpct |-> cfg.send_cmpct,
     fee_filter |-> cfg.fee_filter,
     request_addr |-> cfg.request_addr]

StartErr(e) == [err |-> e, handshake |-> <<>>, messages |-> <<>>]

StartOk(cfg, unix_time, version, n) ==
    [err |-> NoError,
     handshake |-> <<InitializedHandshake(cfg, unix_time, version, n)>>,
     messages |-> UpgradeMessages(Min(cfg.our_version, version.version))]

\* Variant: the nonce is compared after the version and the services.
start_handshake_nonce_last(cfg, unix_time, network_message, n) ==
    IF network_message.cmd # "version"
      THEN StartErr(IrrelevantMessage(network_message.cmd))
    ELSE IF TooLow(cfg, network_message)
      THEN StartErr(TooLowVersion(network_message.version))
    ELSE IF ~has(network_message.services, cfg.expected_services)
      THEN StartErr(MissingService(network_message.services))
    ELSE IF network_message.nonce = n
      THEN StartErr(ConnectionToSelf)
    ELSE StartOk(cfg, unix_time, network_message, n)

\* Variant: the error names the expected command, not the offending one.
start_handshake_wrong_command(cfg, unix_time, network_message, n) ==
    IF network_message.cmd # "version"
      THEN StartErr(IrrelevantMessage("version"))
    ELSE IF network_message.nonce = n
      THEN StartErr(ConnectionToSelf)
    ELSE IF TooLow(cfg, network_message)
      THEN StartErr(TooLowVersion(network_message.version))
    ELSE IF ~has(network_message.services, cfg.expected_services)
      THEN StartErr(MissingService(network_message.services))
    ELSE StartOk(cfg, unix_time, network_message, n)

\* ConnectionConfig::start_handshake
start_handshake_service_first(cfg, unix_time, network_message, n) ==
    IF network_message.cmd # "version"
      THEN StartErr(IrrelevantMessage(network_message.cmd))
    ELSE IF network_message.nonce = n
      THEN StartErr(ConnectionToSelf)
    ELSE IF ~has(network_message.services, cfg.expected_services)
      THEN StartErr(MissingService(network_message.services))
    ELSE IF TooLow(cfg, network_message)
      THEN StartErr(TooLowVersion(network_message.version))
    ELSE StartOk(cfg, unix_time, network_message, n)

start_handshake(cfg, unix_time, network_message, n) ==
    IF network_message.cmd # "version"
      THEN StartErr(IrrelevantMessage(network_message.cmd))
    ELSE IF network_message.nonce = n
      THEN StartErr(ConnectionToSelf)
    ELSE IF TooLow(cfg, network_message)
      THEN StartErr(TooLowVersion(network_message.version))
    ELSE IF ~has(network_message.services, cfg.expected_services)
      THEN StartErr(MissingService(network_message.services))
    ELSE StartOk(cfg, unix_time, network_message, n)

\* Variant: the batch follows the order the messages are built in.
FinalizationBatch_build_order(hs) ==
    <<Verack, FeeFilter(hs.fee_filter),
      SendCmpct(hs.send_cmpct.send_compact, hs.send_cmpct.version)>>
    \o (IF hs.request_addr THEN <<GetAddr>> ELSE <<>>)

\* The finalization batch negotiate returns on Verack (lines 209-215).
FinalizationBatch(hs) ==
    <<Verack, SendCmpct(hs.send_cmpct.send_compact, hs.send_cmpct.version),
      FeeFilter(hs.fee_filter)>>
    \o (IF hs.request_addr THEN <<GetAddr>> ELSE <<>>)

\* Variant: the sendaddrv2 arm sets the flag of the sendheaders arm.
UpdatePreferences_wrong_arm(prefs, message) ==
    CASE message.cmd = "wtxidrelay" -> [prefs EXCEPT !.sendwtxid = TRUE]
      [] message.cmd = "sendaddrv2" -> [prefs EXCEPT !.sendheaders = TRUE]
      [] message.cmd = "sendcmpct" ->
            [prefs EXCEPT !.sendcmpct = [send_compact |-> message.send_compact,
                                         version |-> message.cmpct_version]]
      [] message.cmd = "sendheaders" -> [prefs EXCEPT !.sendheaders = TRUE]
      [] OTHER -> prefs

\* Variant: an announcement flips its flag instead of setting it.
UpdatePreferences_toggle(prefs, message) ==
    CASE message.cmd = "wtxidrelay" -> [prefs EXCEPT !.sendwtxid = ~@]
      [] message.cmd = "sendaddrv2" -> [prefs EXCEPT !.sendaddrv2 = ~@]
      [] message.cmd = "sendcmpct" ->
            [prefs EXCEPT !.sendcmpct = [send_compact |-> message.send_compact,
                                         version |-> message.cmpct_version]]
      [] message.cmd = "sendheaders" -> [prefs EXCEPT !.sendheaders = ~@]
      [] OTHER -> prefs

\* The preference a feature announcement sets (lines 224-239).
UpdatePreferences(prefs, message) ==
    CASE message.cmd = "wtxidrelay" -> [prefs EXCEPT !.sendwtxid = TRUE]
      [] message.cmd = "sendaddrv2" -> [prefs EXCEPT !.sendaddrv2 = TRUE]
      [] message.cmd = "sendcmpct" ->
            [prefs EXCEPT !.sendcmpct = [send_compact |-> message.send_compact,
                                         version |-> message.cmpct_version]]
      [] message.cmd = "sendheaders" -> [prefs EXCEPT !.sendheaders = TRUE]
      [] OTHER -> prefs

FeatureCommands == {"wtxidrelay", "sendaddrv2", "sendcmpct", "sendheaders"}

\* Variant: a message negotiate does not know is skipped, not refused.
negotiate_skip_unknown(hs, message) ==
    IF message.cmd = "verack"
      THEN [err |-> NoError,
            completed |-> <<[feeler |-> hs.feeler,
                             their_preferences |-> hs.their_preferences]>>,
            messages |-> FinalizationBatch(hs),
            session |-> hs]
    ELSE [err |-> NoError, completed |-> <<>>, messages |-> <<>>,
          session |-> [hs EXCEPT !.their_preferences =
                                   UpdatePreferences(@, message)]]

\* InitializedHandshake::negotiate: err is the Err of the Result, completed
\* and messages the Some((CompletedHandshake, Vec)) of Ok, and session is
\* the &mut self after the call.
negotiate(hs, message) ==
    IF message.cmd = "verack"
      THEN [err |-> NoError,
            completed |-> <<[feeler |-> hs.feeler,
                             their_preferences |-> hs.their_preferences]>>,
            messages |-> FinalizationBatch(hs),
            session |-> hs]
    ELSE IF message.cmd \in FeatureCommands
      THEN [err |-> NoError, completed |-> <<>>, messages |-> <<>>,
            session |-> [hs EXCEPT !.their_preferences =
                                     UpdatePreferences(@, message)]]
    ELSE [err |-> IrrelevantMessage(message.cmd), completed |-> <<>>,
          messages |-> <<>>, session |-> hs]

----------------------------------------------------------------------------
(* net.rs: ConnectionExt::handshake                                        *)

\* What ReadTransport::read_message can return to the supervisor: a decoded
\* message of S or one of the transport errors.  It has no path that
\* returns Ok(None).
ReadOutcomes(S) ==
    {[err |-> NoError, msg |-> <<m>>] : m \in S}
    \cup {[err |-> e, msg |-> <<>>] : e \in TransportErrors}

WrittenPrefix_reversed(messages, k) == [i \in 1..k |-> messages[k - i + 1]]

\* for message in messages { write_message(message)? }: the first k
\* messages reach the stream; k < Len(messages) is a failed write.
WrittenPrefix(messages, k) == SubSeq(messages, 1, k)

\* OutboundPing (lib.rs 234-238), one record shape for both states.
LastReceived(then) == [kind |-> "LastReceived", nonce |-> 0, then |-> then]
Waiting(n, then) == [kind |-> "Waiting", nonce |-> n, then |-> then]

\* What a call on a handle returned; op "none" before the first call.
Ret(op) == [op |-> op, ok |-> TRUE, input |-> <<>>, msg |-> <<>>,
            err |-> NoError, flag |-> FALSE, timeout |-> 0, count |-> 0]

\* The writer actor: pc is "none" before it is spawned, "recv" at
\* recv_timeout, "check" at the liveness check, "exited" after return.
Actor(p, e) == [pc |-> p, result |-> e]

\* Before the handshake has returned there is no connection.
NoConnection ==
    /\ now = 0
    /\ outbound_ping_state = LastReceived(0)
    /\ channel = <<>>
    /\ sender = "none"
    /\ writer = Actor("none", NoError)
    /\ written = <<>>
    /\ submitted = <<>>
    /\ ret = Ret("none")

\* MessageRate (lib.rs 116-128), one record shape for both states.
NoneReceived == [kind |-> "NoneReceived", count |-> 0, start |-> 0]
Ongoing(c, s) == [kind |-> "Ongoing", count |-> c, start |-> s]

\* TimedMessage (lib.rs 175-186) and TimedMessages::new (lib.rs 192-203)
TimedMessage == {"BlockHeaders", "CFilters", "Block", "Addr"}
TimedMessages_new == [key \in TimedMessage |-> NoneReceived]

\* Before the handshake has returned no tracker is allocated.
NoTrackers ==
    /\ their_preferences = Preferences_new
    /\ timed_messages = TimedMessages_new
    /\ recorded = <<>>

\* No byte is in flight.
NoStream ==
    /\ stream = <<>>
    /\ eof = FALSE
    /\ sent = <<>>
    /\ received = <<>>

Init ==
    /\ NoConnection
    /\ NoTrackers
    /\ NoStream
    /\ config \in Configs
    /\ nonce \in Nonces
    /\ pc \in {"open_connection", "listen", "start"}
    /\ handshake = <<>>
    /\ wire = <<>>
    /\ started = <<>>
    /\ negotiated = <<>>
    /\ result = NoError
    /\ returned = <<>>
    /\ writer_spawned = FALSE
    /\ observed = {}

\* return Err(e): the session and every local are dropped.
Fail(e) ==
    /\ pc' = "failed"
    /\ result' = e
    /\ handshake' = <<>>

\* A build with overflow checks panics at the subtraction of line 168:
\* start_handshake does not return and the calling thread unwinds.
Panic ==
    /\ pc' = "panicked"
    /\ handshake' = <<>>
    /\ UNCHANGED result

\* open_connection (net.rs 56-65): connect, set the timeouts, handshake.
OpenConnection ==
    /\ pc = "open_connection"
    /\ \E ok \in BOOLEAN :
         IF ok THEN pc' = "start" /\ UNCHANGED <<result, handshake>>
               ELSE Fail(Io)
    /\ UNCHANGED <<config, nonce, wire, started, negotiated, returned,
                   writer_spawned, observed>>
    /\ UNCHANGED <<cvars, rvars, fvars>>

\* listen (net.rs 67-77): bind, accept, set the timeouts, handshake.
Listen ==
    /\ pc = "listen"
    /\ \E ok \in BOOLEAN :
         IF ok THEN pc' = "start" /\ UNCHANGED <<result, handshake>>
               ELSE Fail(Io)
    /\ UNCHANGED <<config, nonce, wire, started, negotiated, returned,
                   writer_spawned, observed>>
    /\ UNCHANGED <<cvars, rvars, fvars>>

\* Lines 84-92: build our version message and write it.
SendVersion ==
    /\ pc = "start"
    /\ \E ok \in BOOLEAN :
         IF ok
           THEN /\ wire' = <<build_our_version(config, UnixTime, nonce)>>
                /\ pc' = "await_version"
                /\ UNCHANGED <<result, handshake>>
           ELSE /\ Fail(Io)
                /\ UNCHANGED wire
    /\ UNCHANGED <<config, nonce, started, negotiated, returned,
                   writer_spawned, observed>>
    /\ UNCHANGED <<cvars, rvars, fvars>>

HandshakeReads_ignores_eof(S, closed) == ReadOutcomes(S)

\* read_half.read_message(&mut tcp_stream) (net.rs 93, 101): once the stream
\* has ended, read_exact fails and the read returns the Io error.
HandshakeReads(S, closed) ==
    IF closed THEN {[err |-> Io, msg |-> <<>>]} ELSE ReadOutcomes(S)

\* The peer closes the stream while the handshake is under way.
StreamEnds ==
    /\ pc \in {"start", "await_version", "negotiating"}
    /\ ~eof
    /\ eof' = TRUE
    /\ UNCHANGED <<stream, sent, received>>
    /\ UNCHANGED <<hvars, cvars, rvars>>

\* Lines 93-99: read the first message, start the handshake, write the
\* suggested messages.
StartHandshake ==
    /\ pc = "await_version"
    /\ \E r \in HandshakeReads(FirstMessages, eof) :
         IF r.err # NoError
              THEN Fail(r.err) /\ UNCHANGED <<wire, started>>
            ELSE IF r.msg = <<>>
              THEN Fail(MissingVersion) /\ UNCHANGED <<wire, started>>
            ELSE LET res == start_handshake(config, UnixTime, r.msg[1], nonce) IN
                 \/ /\ started' = <<[message |-> r.msg[1], ret |-> res]>>
                    /\ IF res.err # NoError
                         THEN Fail(res.err) /\ UNCHANGED wire
                         ELSE \E k \in 0..Len(res.messages) :
                                /\ wire' = wire \o WrittenPrefix(res.messages, k)
                                /\ IF k < Len(res.messages)
                                     THEN Fail(Io)
                                     ELSE /\ pc' = "negotiating"
                                          /\ handshake' = res.handshake
                                          /\ UNCHANGED result
                 \/ /\ res.err = NoError
                    /\ Overflows(UnixTime - r.msg[1].timestamp)
                    /\ Panic
                    /\ UNCHANGED <<wire, started>>
    /\ UNCHANGED <<config, nonce, negotiated, returned, writer_spawned, observed>>
    /\ UNCHANGED <<cvars, rvars, fvars>>

\* Lines 107-144: allocate the shared trackers, clone the stream, spawn the
\* writer actor and return the three handles.
Handles(completed_handshake) ==
    [writer |-> TRUE, reader |-> TRUE,
     metrics |-> [feeler |-> completed_handshake.feeler,
                  their_preferences |-> completed_handshake.their_preferences]]

ReachedSpawn_early(k, n, cloned) == TRUE

\* The spawn at net.rs 131 is reached when every write of the batch
\* (net.rs 104-106) and try_clone (net.rs 123) have succeeded: each ends
\* in `?`.
ReachedSpawn(k, n, cloned) == k = n /\ cloned

\* Lines 107-132: the shared trackers, the channel and the actor thread.
SpawnWriter(completed_handshake) ==
    /\ their_preferences' = completed_handshake.their_preferences
    /\ timed_messages' = TimedMessages_new
    /\ outbound_ping_state' = LastReceived(now)
    /\ sender' = "held"
    /\ writer' = Actor("recv", NoError)
    /\ writer_spawned' = TRUE
    /\ UNCHANGED <<now, channel, written, submitted, ret, recorded>>

\* Lines 100-149: one turn of the loop: read a message, negotiate, and on
\* Completed write the responses and return the handles.
Negotiate ==
    /\ pc = "negotiating"
    /\ \E r \in HandshakeReads(LaterMessages, eof) :
         IF r.err # NoError
              THEN /\ Fail(r.err)
                   /\ negotiated' = <<>>
                   /\ UNCHANGED <<wire, returned, writer_spawned, observed>>
                   /\ UNCHANGED <<cvars, rvars>>
            ELSE IF r.msg = <<>>
              THEN /\ UNCHANGED <<pc, result, handshake, wire, negotiated, returned,
                                  writer_spawned, observed>>
                   /\ UNCHANGED <<cvars, rvars>>
            ELSE LET res == negotiate(handshake[1], r.msg[1]) IN
                 /\ negotiated' = <<[message |-> r.msg[1], ret |-> res]>>
                 /\ IF res.err # NoError
                      THEN /\ Fail(res.err)
                           /\ UNCHANGED <<wire, returned, writer_spawned, observed>>
                           /\ UNCHANGED <<cvars, rvars>>
                    ELSE IF res.completed = <<>>
                      THEN /\ handshake' = <<res.session>>
                           /\ observed' = observed \cup {r.msg[1].cmd}
                           /\ UNCHANGED <<pc, result, wire, returned, writer_spawned>>
                           /\ UNCHANGED <<cvars, rvars>>
                    ELSE \E k \in 0..Len(res.messages), cloned \in BOOLEAN :
                           /\ wire' = wire \o WrittenPrefix(res.messages, k)
                           /\ UNCHANGED observed
                           /\ IF ~ReachedSpawn(k, Len(res.messages), cloned)
                                THEN /\ Fail(Io)
                                     /\ UNCHANGED <<returned, writer_spawned>>
                                     /\ UNCHANGED <<cvars, rvars>>
                                ELSE /\ pc' = "completed"
                                     /\ handshake' = <<>>
                                     /\ SpawnWriter(res.completed[1])
                                     /\ returned' = <<Handles(res.completed[1])>>
                                     /\ UNCHANGED result
    /\ UNCHANGED <<config, nonce, started>>
    /\ UNCHANGED fvars

Next ==
    \/ OpenConnection
    \/ Listen
    \/ SendVersion
    \/ StartHandshake
    \/ Negotiate
    \/ StreamEnds

Spec == Init /\ [][Next]_vars

----------------------------------------------------------------------------
(* Properties of start_handshake.                                          *)

Max(a, b) == IF a >= b THEN a ELSE b

\* start_handshake was called on a version message.
StartedOnVersion == started # <<>> /\ started[1].message.cmd = "version"
StartedOk == started # <<>> /\ started[1].ret.err = NoError
VersionFloor == Max(config.expected_version, MIN_PEER_PROTO_VERSION)
Lacks(services, required) == \E bit \in required : bit \notin services

\* C1 as stated: for every version message, start_handshake succeeds iff
\* the peer's version v is at least max(configured minimum, absolute floor),
\* and otherwise fails with TooLowVersion(v), whatever the nonce and the
\* services of the message are.
C1_AsStated ==
    StartedOnVersion =>
        LET v == started[1].message.version IN
        /\ started[1].ret.err = NoError <=> v >= VersionFloor
        /\ v < VersionFloor => started[1].ret.err = TooLowVersion(v)

\* C1 amended: for every version message whose nonce differs from ours,
\* start_handshake fails with TooLowVersion(v) iff v is below
\* max(configured minimum, absolute floor), whatever the services, timestamp
\* and height are; it succeeds iff v is at least that floor and the peer
\* advertises every required service bit.
C1_VersionFloor ==
    (StartedOnVersion /\ started[1].message.nonce # nonce) =>
        LET v == started[1].message.version
            s == started[1].message.services IN
        /\ started[1].ret.err = TooLowVersion(v) <=> v < VersionFloor
        /\ started[1].ret.err = NoError <=>
               (v >= VersionFloor /\ ~Lacks(s, config.expected_services))

\* A peer at or above the absolute floor is rejected for the configured one.
C1_Witness ==
    /\ StartedOnVersion
    /\ started[1].message.nonce # nonce
    /\ started[1].message.version >= MIN_PEER_PROTO_VERSION
    /\ started[1].message.version < config.expected_version
    /\ started[1].ret.err = TooLowVersion(started[1].message.version)
    /\ pc = "failed"

\* C2: a version message carrying our own nonce makes start_handshake fail
\* with ConnectionToSelf, whatever its version and services are, and the
\* supervisor returns that error.
C2_ConnectionToSelf ==
    (StartedOnVersion /\ started[1].message.nonce = nonce) =>
        /\ started[1].ret.err = ConnectionToSelf
        /\ started[1].ret.handshake = <<>>
        /\ result = ConnectionToSelf
        /\ pc = "failed"

\* Our own nonce comes back in a message that would be rejected for its
\* version as well.
C2_Witness ==
    /\ StartedOnVersion
    /\ started[1].message.nonce = nonce
    /\ started[1].message.version < VersionFloor
    /\ Lacks(started[1].message.services, config.expected_services)
    /\ result = ConnectionToSelf

\* C3: a peer that lacks at least one required service bit is never
\* accepted, even when it advertises others of them; a version message that
\* passes the nonce and version tests fails with MissingService(peer
\* services) iff a required bit is missing; with an empty requirement no
\* peer is rejected for its services.
C3_MissingService ==
    /\ (StartedOnVersion
            /\ Lacks(started[1].message.services, config.expected_services)) =>
          started[1].ret.err # NoError /\ pc = "failed"
    /\ (StartedOnVersion /\ started[1].message.nonce # nonce
            /\ started[1].message.version >= VersionFloor) =>
          LET s == started[1].message.services IN
          started[1].ret.err = MissingService(s)
              <=> Lacks(s, config.expected_services)
    /\ (started # <<>> /\ config.expected_services = ServiceNone) =>
          started[1].ret.err.kind # "MissingService"
    /\ (started # <<>> /\ started[1].ret.err.kind = "MissingService") =>
          /\ started[1].ret.err.services = started[1].message.services
          /\ result = started[1].ret.err

\* The peer advertises one of the two required bits and is rejected.
C3_Witness ==
    /\ StartedOnVersion
    /\ started[1].message.services \cap config.expected_services # {}
    /\ started[1].ret.err = MissingService(started[1].message.services)
    /\ pc = "failed"

\* C4: a first inbound message that is not a version announcement makes
\* start_handshake fail with IrrelevantMessage carrying that message's
\* command; no session exists and nothing but our version was written.
C4_IrrelevantFirst ==
    (started # <<>> /\ started[1].message.cmd # "version") =>
        /\ started[1].ret.err = IrrelevantMessage(started[1].message.cmd)
        /\ started[1].ret.handshake = <<>>
        /\ started[1].ret.messages = <<>>
        /\ handshake = <<>>
        /\ wire = <<build_our_version(config, UnixTime, nonce)>>
        /\ result = started[1].ret.err
        /\ pc = "failed"

\* The peer opens with a Verack.
C4_Witness ==
    /\ started # <<>>
    /\ started[1].message = Verack
    /\ result = IrrelevantMessage("verack")

Count(seq, m) == Cardinality({i \in DOMAIN seq : seq[i] = m})
EffectiveVersion == Min(config.our_version, started[1].message.version)

\* C5: after a successful start_handshake the upgrade messages hold exactly
\* one of SendHeaders and the final Alert: SendHeaders iff
\* min(our version, their version) is at least the send-headers threshold,
\* the Alert iff it is below.
C5_HeadersOrAlert ==
    StartedOk =>
        LET msgs == started[1].ret.messages IN
        /\ Count(msgs, SendHeaders) + Count(msgs, Alert) = 1
        /\ Count(msgs, SendHeaders) = 1 <=> EffectiveVersion >= 70012
        /\ Count(msgs, Alert) = 1 <=> EffectiveVersion < 70012
        /\ started[1].ret.handshake[1].feeler.effective_version = EffectiveVersion

\* An old peer is accepted and gets the Alert, which reaches the stream.
C5_Witness ==
    /\ StartedOk
    /\ started[1].ret.messages = <<Alert>>
    /\ wire = <<build_our_version(config, UnixTime, nonce), Alert>>
    /\ pc = "negotiating"

\* The list the thresholds 70016 and 70012 give for an effective version.
ExpectedUpgrades(ev) ==
    IF ev >= 70016 THEN <<WtxidRelay, SendAddrV2, SendHeaders>>
    ELSE IF ev >= 70012 THEN <<SendHeaders>>
    ELSE <<Alert>>

\* One version on each side of every threshold of the upgrade list.
ThresholdVersions ==
    {t + d : t \in {SENDHEADERS_VERSION, WTXID_RELAY_VERSION, SENDADDRV2_VERSION},
             d \in {-1, 0, 1}}

\* seq is an ordered subsequence of [WtxidRelay, SendAddrV2, last].
IsUpgradeOrder(seq) ==
    \E w \in BOOLEAN, a \in BOOLEAN, last \in {SendHeaders, Alert} :
        seq = (IF w THEN <<WtxidRelay>> ELSE <<>>)
              \o (IF a THEN <<SendAddrV2>> ELSE <<>>) \o <<last>>

\* C6 as stated: the upgrade list of a successful start_handshake is an
\* ordered subsequence of [WtxidRelay, SendAddrV2, SendHeaders | Alert],
\* SendAddrV2 implies WtxidRelay, and the SendAddrV2 threshold lies above the
\* WtxidRelay threshold, so that some effective version gets WtxidRelay
\* without SendAddrV2.
C6_AsStated ==
    StartedOk =>
        /\ IsUpgradeOrder(started[1].ret.messages)
        /\ Count(started[1].ret.messages, SendAddrV2) = 1
              => Count(started[1].ret.messages, WtxidRelay) = 1
        /\ \E ev \in ThresholdVersions :
              /\ Count(UpgradeMessages(ev), WtxidRelay) = 1
              /\ Count(UpgradeMessages(ev), SendAddrV2) = 0

\* C6 amended: the upgrade list of a successful start_handshake depends on
\* the effective version alone and is an ordered subsequence of
\* [WtxidRelay, SendAddrV2, SendHeaders | Alert] with the SendHeaders-or-
\* Alert element last; the SendAddrV2 threshold is written separately but
\* equals the WtxidRelay threshold (70016), so SendAddrV2 is present iff
\* WtxidRelay is, and no effective version gets one without the other.
C6_UpgradeOrder ==
    StartedOk =>
        LET msgs == started[1].ret.messages IN
        /\ msgs = ExpectedUpgrades(EffectiveVersion)
        /\ IsUpgradeOrder(msgs)
        /\ Count(msgs, SendAddrV2) = Count(msgs, WtxidRelay)
        /\ \A ev \in ThresholdVersions :
              Count(UpgradeMessages(ev), WtxidRelay)
                  = Count(UpgradeMessages(ev), SendAddrV2)

\* A peer above our version gets the full list, capped at our version.
C6_Witness ==
    /\ StartedOk
    /\ started[1].message.version > config.our_version
    /\ started[1].ret.messages = <<WtxidRelay, SendAddrV2, SendHeaders>>
    /\ pc = "negotiating"

----------------------------------------------------------------------------
(* Properties of negotiate and of the supervisor's loop.                   *)

\* The last call of negotiate was made on a message of command c.
NegotiatedOn(c) == negotiated # <<>> /\ negotiated[1].message.cmd = c

\* C7: an inbound Verack makes negotiate return Completed with the batch
\* Verack, the configured SendCmpct, the configured FeeFilter and, last and
\* only if request_addr was configured, GetAddr; the supervisor writes it
\* in that order.
C7_FinalizationBatch ==
    NegotiatedOn("verack") =>
        LET batch == <<Verack,
                       SendCmpct(config.send_cmpct.send_compact,
                                 config.send_cmpct.version),
                       FeeFilter(config.fee_filter)>>
                     \o (IF config.request_addr THEN <<GetAddr>> ELSE <<>>) IN
        /\ negotiated[1].ret.err = NoError
        /\ negotiated[1].ret.completed # <<>>
        /\ negotiated[1].ret.messages = batch
        /\ pc \in {"completed", "failed"}
        /\ pc = "completed" =>
              wire = <<build_our_version(config, UnixTime, nonce)>>
                     \o started[1].ret.messages \o batch

\* The handshake completes with a non-default configuration and GetAddr is
\* the last message on the stream.
C7_Witness ==
    /\ NegotiatedOn("verack")
    /\ pc = "completed"
    /\ config.request_addr
    /\ config.send_cmpct.version > 0
    /\ config.fee_filter # BROADCAST_MIN
    /\ wire[Len(wire)] = GetAddr
    /\ wire[Len(wire) - 1] = FeeFilter(config.fee_filter)

\* The preferences after a feature announcement of command c.
AfterAnnouncement(prefs, message) ==
    [sendheaders |-> prefs.sendheaders \/ message.cmd = "sendheaders",
     sendaddrv2 |-> prefs.sendaddrv2 \/ message.cmd = "sendaddrv2",
     sendwtxid |-> prefs.sendwtxid \/ message.cmd = "wtxidrelay",
     sendcmpct |-> IF message.cmd = "sendcmpct"
                     THEN [send_compact |-> message.send_compact,
                           version |-> message.cmpct_version]
                     ELSE prefs.sendcmpct]

\* negotiate ran in this step, on message m.
NegotiateStep(m) ==
    /\ pc = "negotiating"
    /\ negotiated' # <<>>
    /\ negotiated'[1].message = m

\* C8: in Negotiating, a feature announcement makes negotiate return "no
\* transition" with no outbound messages; the session stays in Negotiating,
\* only the preference of that announcement changes, and the other
\* preferences, the FeelerData and the stream are left as they were.
C8_FeatureAnnouncement ==
    [][\A m \in FeatureMessages :
         NegotiateStep(m) =>
            /\ negotiated'[1].ret.err = NoError
            /\ negotiated'[1].ret.completed = <<>>
            /\ negotiated'[1].ret.messages = <<>>
            /\ pc' = "negotiating"
            /\ wire' = wire
            /\ result' = result /\ returned' = returned
            /\ writer_spawned' = writer_spawned
            /\ handshake' # <<>>
            /\ handshake'[1] =
                  [handshake[1] EXCEPT !.their_preferences =
                      AfterAnnouncement(@, m)]]_vars

\* A SendCmpct announcement was taken while an earlier flag stays set.
C8_Witness ==
    /\ pc = "negotiating"
    /\ NegotiatedOn("sendcmpct")
    /\ negotiated[1].message.cmpct_version > 0
    /\ handshake[1].their_preferences.sendcmpct.version > 0
    /\ handshake[1].their_preferences.sendwtxid
    /\ ~handshake[1].their_preferences.sendheaders

AcceptedCommands == {"verack"} \cup FeatureCommands

\* C9: in Negotiating, a message that is neither Verack nor a feature
\* announcement makes negotiate fail with IrrelevantMessage; the supervisor
\* returns that error, spawns no writer actor and returns no handle.
C9_IrrelevantLater ==
    (negotiated # <<>> /\ negotiated[1].message.cmd \notin AcceptedCommands) =>
        /\ negotiated[1].ret.err = IrrelevantMessage(negotiated[1].message.cmd)
        /\ negotiated[1].ret.completed = <<>>
        /\ result = negotiated[1].ret.err
        /\ pc = "failed"
        /\ ~writer_spawned
        /\ returned = <<>>
        /\ handshake = <<>>

\* A second Version arrives after some announcements were taken.
C9_Witness ==
    /\ NegotiatedOn("version")
    /\ observed # {}
    /\ result = IrrelevantMessage("version")
    /\ pc = "failed"

\* The three boolean flags of a Preferences value, as the set of the
\* commands that set them.
Flags(prefs) ==
    {c \in {"sendheaders", "sendaddrv2", "wtxidrelay"} :
        \/ c = "sendheaders" /\ prefs.sendheaders
        \/ c = "sendaddrv2" /\ prefs.sendaddrv2
        \/ c = "wtxidrelay" /\ prefs.sendwtxid}

\* C10: the three flags are unset in the session start_handshake returns;
\* during negotiation each flag is set iff its announcement was observed at
\* least once, whatever the sequence of announcements, so a flag once set
\* is never cleared; the preferences of the metrics handle returned by a
\* successful handshake hold exactly those flags.
C10_FlagsObserved ==
    /\ StartedOk => Flags(started[1].ret.handshake[1].their_preferences) = {}
    /\ handshake # <<>> =>
          Flags(handshake[1].their_preferences) = observed \ {"sendcmpct"}
    /\ returned # <<>> =>
          Flags(returned[1].metrics.their_preferences) = observed \ {"sendcmpct"}

\* The handshake completed after the peer announced two of the three.
C10_Witness ==
    /\ pc = "completed"
    /\ returned # <<>>
    /\ observed = {"wtxidrelay", "sendaddrv2", "sendcmpct"}
    /\ returned[1].metrics.their_preferences.sendwtxid
    /\ returned[1].metrics.their_preferences.sendaddrv2
    /\ ~returned[1].metrics.their_preferences.sendheaders

\* C11: the recorded compact-block version of the peer never goes back to
\* the default "unset" value: once a SendCmpct announcement has set it to a
\* non-default version, no later message of the negotiation (a SendCmpct
\* carrying version 0 included) returns it to 0.
C11_CmpctNeverUnset ==
    [][(/\ handshake # <<>>
        /\ handshake' # <<>>
        /\ handshake[1].their_preferences.sendcmpct.version # 0)
          => handshake'[1].their_preferences.sendcmpct.version # 0]_vars

----------------------------------------------------------------------------
(* The established connection: net.rs 188-321, lib.rs 104-113.             *)

\* Bounds of the connection model.
MaxTime == 4
MaxSubmitted == 2
PingInterval == 1
\* recv_timeout(Duration::from_secs(1))
RecvTimeout == 1

\* What the caller submits, what the peer sends, and the timeouts the
\* caller asks ping_timed_out about.
CallerMessages == {BaseMsg("inv"), Ping(1)}
InboundMessages == {Pong(n) : n \in Nonces} \cup {BaseMsg("inv")}
QueryTimeouts == {0, PingInterval}

\* The Sender lives as long as the ConnectionWriter that owns it: while
\* the caller holds the handle and during take_errors, whose self is
\* dropped only when the function returns, after the join.
SenderAlive == sender \in {"held", "joining"}

\* An entry of the stream: probe marks a Ping the actor generated itself.
Entry(m, p) == [msg |-> m, probe |-> p]

\* The state a completed handshake leaves: the default configuration, a
\* peer at our version, no announcement before its Verack.
ConnInit ==
    LET cfg == ConnectionConfig(PROTOCOL_VERSION, SERVICES, CmpctConfig(0),
                                BROADCAST_MIN, FALSE)
        res == start_handshake(cfg, UnixTime, SomeVersion, 1)
        fin == negotiate(res.handshake[1], Verack)
    IN  /\ config = cfg
        /\ nonce = 1
        /\ pc = "completed"
        /\ handshake = <<>>
        /\ wire = <<build_our_version(cfg, UnixTime, 1)>>
                  \o res.messages \o fin.messages
        /\ started = <<[message |-> SomeVersion, ret |-> res]>>
        /\ negotiated = <<[message |-> Verack, ret |-> fin]>>
        /\ result = NoError
        /\ returned = <<Handles(fin.completed[1])>>
        /\ writer_spawned = TRUE
        /\ observed = {}
        /\ now = 0
        /\ outbound_ping_state = LastReceived(0)
        /\ channel = <<>>
        /\ sender = "held"
        /\ writer = Actor("recv", NoError)
        /\ written = <<>>
        /\ submitted = <<>>
        /\ ret = Ret("none")
        /\ their_preferences = fin.completed[1].their_preferences
        /\ timed_messages = TimedMessages_new
        /\ recorded = <<>>
        /\ NoStream

\* The actor is blocked in recv_timeout on an empty channel.
WriterIdle == writer.pc = "recv" /\ channel = <<>> /\ SenderAlive

\* Time passes while the actor is not waiting for a message; when it is,
\* a second passing is the return of recv_timeout (WriterTimeout).
Tick ==
    /\ ~WriterIdle
    /\ now < MaxTime
    /\ now' = now + 1
    /\ UNCHANGED <<outbound_ping_state, channel, sender, writer, written,
                   submitted, ret>>
    /\ UNCHANGED <<hvars, rvars, fvars>>

ReceiverDropped_never == FALSE

\* mpsc::Sender::send fails iff the Receiver has been dropped, which the
\* actor does when maintain_connection returns.
ReceiverDropped == writer.pc \in {"exited", "panicked"}

\* mpsc::Sender::send on a live channel: the queue is unbounded and FIFO.
send(ch, m) == Append(ch, m)

recv_newest(ch) == [message |-> ch[Len(ch)], rest |-> SubSeq(ch, 1, Len(ch) - 1)]

\* mpsc::Receiver::recv_timeout, Ok arm: the oldest queued message.
recv(ch) == [message |-> Head(ch), rest |-> Tail(ch)]

Disconnected_with_pending(ch, alive) == ~alive

\* recv_timeout returns Disconnected only when no Sender is left and
\* nothing is queued.
Disconnected(ch, alive) == ch = <<>> /\ ~alive

\* ConnectionWriter::send_message (net.rs 199-204)
send_message(network_message) ==
    /\ sender = "held"
    /\ Len(submitted) < MaxSubmitted
    /\ IF ReceiverDropped
         THEN /\ ret' = [Ret("send_message") EXCEPT !.ok = FALSE,
                                                    !.msg = <<network_message>>]
              /\ UNCHANGED <<channel, submitted>>
         ELSE /\ channel' = send(channel, network_message)
              /\ submitted' = Append(submitted, network_message)
              /\ ret' = [Ret("send_message") EXCEPT !.msg = <<network_message>>]
    /\ UNCHANGED <<now, outbound_ping_state, sender, writer, written>>
    /\ UNCHANGED <<hvars, rvars, fvars>>

SendMessage == \E m \in CallerMessages : send_message(m)

\* The caller drops the ConnectionWriter, and the only Sender with it.
DropWriter ==
    /\ sender = "held"
    /\ sender' = "dropped"
    /\ UNCHANGED <<now, outbound_ping_state, channel, writer, written,
                   submitted, ret>>
    /\ UNCHANGED <<hvars, rvars, fvars>>

\* ConnectionWriter::take_errors (net.rs 208-210), up to the join.
TakeErrorsCall ==
    /\ sender = "held"
    /\ sender' = "joining"
    /\ UNCHANGED <<now, outbound_ping_state, channel, writer, written,
                   submitted, ret>>
    /\ UNCHANGED <<hvars, rvars, fvars>>

Result_err_dropped(terminal) == <<TRUE, NoError>>

\* Result::err of the actor's terminal result: <<is none, the error>>.
Result_err(terminal) == <<terminal = NoError, terminal>>

\* take_errors from the join on: join().ok()?.err()
TakeErrorsReturn ==
    /\ sender = "joining"
    /\ writer.pc = "exited"
    /\ sender' = "taken"
    /\ ret' = [Ret("take_errors") EXCEPT !.input = <<writer.result>>,
                                         !.ok = Result_err(writer.result)[1],
                                         !.err = Result_err(writer.result)[2]]
    /\ UNCHANGED <<now, outbound_ping_state, channel, writer, written, submitted>>
    /\ UNCHANGED <<hvars, rvars, fvars>>

\* return from maintain_connection: the OpenWriter is dropped, and the
\* Receiver and what it still holds with it.
Exit(e) ==
    /\ writer' = Actor("exited", e)
    /\ channel' = <<>>

\* maintain_connection, Ok arm of recv_timeout (net.rs 225-230)
WriterRecv ==
    /\ writer.pc = "recv"
    /\ channel # <<>>
    /\ \E ok \in BOOLEAN :
         IF ok
           THEN /\ written' = Append(written, Entry(recv(channel).message, FALSE))
                /\ channel' = recv(channel).rest
                /\ writer' = Actor("check", NoError)
           ELSE /\ Exit(Io)
                /\ UNCHANGED written
    /\ UNCHANGED <<now, outbound_ping_state, sender, submitted, ret>>
    /\ UNCHANGED <<hvars, rvars, fvars>>

\* maintain_connection, Timeout arm (net.rs 232): continue
WriterTimeout ==
    /\ WriterIdle
    /\ now + RecvTimeout <= MaxTime
    /\ now' = now + RecvTimeout
    /\ UNCHANGED <<outbound_ping_state, channel, sender, writer, written,
                   submitted, ret>>
    /\ UNCHANGED <<hvars, rvars, fvars>>

\* maintain_connection, Disconnected arm (net.rs 233): return Ok(())
WriterDisconnected ==
    /\ writer.pc = "recv"
    /\ Disconnected(channel, SenderAlive)
    /\ Exit(NoError)
    /\ UNCHANGED <<now, outbound_ping_state, sender, written, submitted, ret>>
    /\ UNCHANGED <<hvars, rvars, fvars>>

PingDue_any_state(state, t, interval) == t - state.then > interval

PingDue_at_interval(state, t, interval) ==
    state.kind = "LastReceived" /\ t - state.then >= interval

\* The test of the liveness check (net.rs 238-239).
PingDue(state, t, interval) ==
    state.kind = "LastReceived" /\ t - state.then > interval

\* maintain_connection, the liveness check under the lock (net.rs 236-252)
WriterCheck ==
    /\ writer.pc = "check"
    /\ IF PingDue(outbound_ping_state, now, PingInterval)
         THEN \E n \in Nonces, ok \in BOOLEAN :
                IF ok
                  THEN /\ written' = Append(written, Entry(Ping(n), TRUE))
                       /\ outbound_ping_state' = Waiting(n, now)
                       /\ writer' = Actor("recv", NoError)
                       /\ UNCHANGED channel
                  ELSE /\ Exit(Io)
                       /\ UNCHANGED <<written, outbound_ping_state>>
         ELSE /\ writer' = Actor("recv", NoError)
              /\ UNCHANGED <<written, outbound_ping_state, channel>>
    /\ UNCHANGED <<now, sender, submitted, ret>>
    /\ UNCHANGED <<hvars, rvars, fvars>>

OnPong_any_nonce(state, pong, t) ==
    IF state.kind = "Waiting" THEN LastReceived(t) ELSE state

\* The Pong arm of the reader (net.rs 303-315).
OnPong(state, pong, t) ==
    IF state.kind = "Waiting" /\ pong = state.nonce
      THEN LastReceived(t)
      ELSE state

\* Preferences::prefers_header_announcment, called at net.rs 274: one
\* atomic store that sets the flag.
prefers_header_announcment(prefs) == [prefs EXCEPT !.sendheaders = TRUE]

\* Preferences::prefers_cmpct, called at net.rs 276: one atomic store of
\* the version.
prefers_cmpct(prefs, version) == [prefs EXCEPT !.sendcmpct.version = version]

\* The preference arms of the reader (net.rs 274-277); every other
\* message takes the catch-all arm at net.rs 316.
ReaderPreferences(prefs, message) ==
    CASE message.cmd = "sendheaders" -> prefers_header_announcment(prefs)
      [] message.cmd = "sendcmpct" -> prefers_cmpct(prefs, message.cmpct_version)
      [] OTHER -> prefs

\* The scaled-down width of u32 and its largest value.
U32Bits == 12
U32_MAX == 2 ^ U32Bits - 1

add_messages_restamped(rate, num_messages, t) ==
    IF num_messages = 0 THEN rate
    ELSE IF rate.kind = "NoneReceived"
           THEN Ongoing(num_messages, t)
           ELSE Ongoing(rate.count + num_messages, t)

\* MessageRate::add_messages (lib.rs 139-154)
add_messages(rate, num_messages, t) ==
    IF num_messages = 0 THEN rate
    ELSE LET n == IF num_messages > U32_MAX THEN U32_MAX ELSE num_messages IN
         IF rate.kind = "NoneReceived"
           THEN Ongoing(n, t)
           ELSE Ongoing(rate.count + n, rate.start)

\* MessageRate::add_single_message (lib.rs 135-137)
add_single_message(rate, t) == add_messages(rate, 1, t)

\* TimedMessages::add_single (lib.rs 205-211)
add_single(tm, message, t) ==
    [tm EXCEPT ![message] = add_single_message(@, t)]

\* TimedMessages::add_many (lib.rs 213-219)
add_many(tm, message, num_messages, t) ==
    [tm EXCEPT ![message] = add_messages(@, num_messages, t)]

\* The messages the reader counts, and the category and the number each
\* is counted with (net.rs 278-302).
TimedCommands == {"block", "headers", "cfilter", "addr", "addrv2"}
TimedCategory(message) ==
    CASE message.cmd = "block" -> "Block"
      [] message.cmd = "headers" -> "BlockHeaders"
      [] message.cmd = "cfilter" -> "CFilters"
      [] OTHER -> "Addr"
TimedCount(message) ==
    IF message.cmd \in {"addr", "addrv2"} THEN message.addrs ELSE 1

ReaderRates_headers_as_blocks(tm, message, t) ==
    CASE message.cmd \in {"block", "headers"} -> add_single(tm, "Block", t)
      [] message.cmd = "cfilter" -> add_single(tm, "CFilters", t)
      [] message.cmd \in {"addr", "addrv2"}
           -> add_many(tm, "Addr", message.addrs, t)
      [] OTHER -> tm

\* The rate arms of the reader (net.rs 278-302).
ReaderRates(tm, message, t) ==
    CASE message.cmd \in {"block", "headers", "cfilter"}
           -> add_single(tm, TimedCategory(message), t)
      [] message.cmd \in {"addr", "addrv2"}
           -> add_many(tm, "Addr", message.addrs, t)
      [] OTHER -> tm

\* One call of add_messages, as the history keeps it.
Record(category, n, t) == [category |-> category, count |-> n, time |-> t]

\* The add_messages calls the history has room for.
MaxRecords == 3

\* ConnectionReader::read_message (net.rs 270-320) on the messages of S.
ReadMessageFrom(S) ==
    /\ \E r \in ReadOutcomes(S) :
         IF r.err # NoError
           THEN /\ ret' = [Ret("read_message") EXCEPT !.ok = FALSE, !.err = r.err]
                /\ UNCHANGED <<outbound_ping_state, rvars>>
           ELSE LET message == r.msg[1]
                    timed == message.cmd \in TimedCommands
                IN  /\ timed => Len(recorded) < MaxRecords
                    /\ their_preferences' = ReaderPreferences(their_preferences, message)
                    /\ timed_messages' = ReaderRates(timed_messages, message, now)
                    /\ recorded' =
                          IF timed
                            THEN Append(recorded, Record(TimedCategory(message),
                                                         TimedCount(message), now))
                            ELSE recorded
                    /\ outbound_ping_state' =
                          IF message.cmd = "pong"
                            THEN OnPong(outbound_ping_state, message.nonce, now)
                            ELSE outbound_ping_state
                    /\ ret' = [Ret("read_message") EXCEPT !.input = r.msg,
                                                          !.msg = r.msg]
    /\ UNCHANGED <<now, channel, sender, writer, written, submitted>>
    /\ UNCHANGED <<hvars, fvars>>

\* The reader of ConnSpec: the peer answers Pings and announces inventory.
ReadMessage == ReadMessageFrom(InboundMessages)

ping_timed_out_any_state(state, t, timeout) == t - state.then > timeout

\* ConnectionMetrics::ping_timed_out (lib.rs 105-113)
ping_timed_out(state, t, timeout) ==
    IF state.kind = "Waiting" THEN t - state.then > timeout ELSE FALSE

PingTimedOut ==
    /\ \E timeout \in QueryTimeouts :
         ret' = [Ret("ping_timed_out") EXCEPT
                   !.flag = ping_timed_out(outbound_ping_state, now, timeout),
                   !.timeout = timeout]
    /\ UNCHANGED <<now, outbound_ping_state, channel, sender, writer, written,
                   submitted>>
    /\ UNCHANGED <<hvars, rvars, fvars>>

\* ConnectionMetrics::their_preferences (lib.rs 88-91): a copy of the
\* shared record.
TheirPreferences ==
    /\ ret' = [Ret("their_preferences") EXCEPT !.msg = <<their_preferences>>]
    /\ UNCHANGED <<now, outbound_ping_state, channel, sender, writer, written,
                   submitted>>
    /\ UNCHANGED <<hvars, rvars, fvars>>

\* What the peer may send on an established connection.
ReaderMessages ==
    {SendHeaders, SendAddrV2, WtxidRelay, Block, Headers, CFilter,
     Addr(0), Addr(2), AddrV2(1), Pong(1), BaseMsg("inv")}
    \cup {SendCmpct(TRUE, v) : v \in 1..MaxCmpctVersion}

ReaderRead == ReadMessageFrom(ReaderMessages)

\* The reader and the metrics handle of an established connection.
ReaderNext == ReaderRead \/ TheirPreferences

ReaderSpec == ConnInit /\ [][ReaderNext]_vars

ConnNext ==
    \/ Tick
    \/ SendMessage
    \/ DropWriter
    \/ TakeErrorsCall
    \/ TakeErrorsReturn
    \/ WriterRecv
    \/ WriterTimeout
    \/ WriterDisconnected
    \/ WriterCheck
    \/ ReadMessage
    \/ PingTimedOut

ConnSpec == ConnInit /\ [][ConnNext]_vars

\* The actor is a thread of its own: a step of it that stays possible is
\* taken.  Nothing is assumed of the caller, the reader or the peer.
ConnFair ==
    /\ ConnSpec
    /\ WF_vars(WriterRecv)
    /\ WF_vars(WriterCheck)
    /\ WF_vars(WriterDisconnected)

----------------------------------------------------------------------------
(* The liveness lock step by step: the check of the actor (net.rs 236-252) *)
(* taken apart into the acquisition of the lock, the write of the Ping and *)
(* the store of Waiting, against the reader's Pong arm (net.rs 303-315)    *)
(* and ping_timed_out (lib.rs 105-113), which take the same lock.          *)

lock_unguarded(actor) == IF actor.pc = "panicked" THEN "poisoned" ELSE "acquired"

\* outbound_ping_state.lock() called by the reader or the metrics handle:
\* it waits while the actor holds the guard and fails once the actor has
\* panicked with the guard held.
lock(actor) ==
    IF actor.pc \in {"locked", "pinged"} THEN "blocked"
    ELSE IF actor.pc = "panicked" THEN "poisoned"
    ELSE "acquired"

\* net.rs 236: the actor takes the lock. It is the only thread that can
\* poison it, so its own acquisition succeeds.
CheckLock ==
    /\ writer.pc = "check"
    /\ writer' = Actor("locked", NoError)
    /\ UNCHANGED <<now, outbound_ping_state, channel, sender, written,
                   submitted, ret>>
    /\ UNCHANGED <<hvars, rvars, fvars>>

\* net.rs 237-243 and 250: with the guard held, the match on the state,
\* random() and the write of the Ping. random() is the first use of the
\* thread's generator and panics when that cannot be seeded: the thread
\* unwinds with the guard held and drops the Receiver.
CheckState ==
    /\ writer.pc = "locked"
    /\ IF PingDue(outbound_ping_state, now, PingInterval)
         THEN \/ \E n \in Nonces, ok \in BOOLEAN :
                   IF ok
                     THEN /\ written' = Append(written, Entry(Ping(n), TRUE))
                          /\ writer' = Actor("pinged", NoError)
                          /\ UNCHANGED channel
                     ELSE /\ Exit(Io)
                          /\ UNCHANGED written
              \/ /\ writer' = Actor("panicked", NoError)
                 /\ channel' = <<>>
                 /\ UNCHANGED written
         ELSE /\ writer' = Actor("recv", NoError)
              /\ UNCHANGED <<written, channel>>
    /\ UNCHANGED <<now, outbound_ping_state, sender, submitted, ret>>
    /\ UNCHANGED <<hvars, rvars, fvars>>

\* net.rs 244-247: Waiting is stored with the nonce just written, and the
\* guard is dropped at the end of the block.
CheckRecord ==
    /\ writer.pc = "pinged"
    /\ outbound_ping_state' = Waiting(written[Len(written)].msg.nonce, now)
    /\ writer' = Actor("recv", NoError)
    /\ UNCHANGED <<now, channel, sender, written, submitted, ret>>
    /\ UNCHANGED <<hvars, rvars, fvars>>

\* net.rs 306-314: the Pong arm runs inside `if let Ok(mut lock)`.
PongArm(l, state, pong, t) ==
    IF l = "acquired" THEN OnPong(state, pong, t) ELSE state

ReadReturn_fatal(l, message) ==
    IF l = "poisoned"
      THEN [Ret("read_message") EXCEPT !.ok = FALSE, !.err = Io,
                                       !.input = <<message>>]
      ELSE [Ret("read_message") EXCEPT !.input = <<message>>, !.msg = <<message>>]

\* net.rs 319: Ok(message), whatever became of the lock.
ReadReturn(l, message) ==
    [Ret("read_message") EXCEPT !.input = <<message>>, !.msg = <<message>>]

\* ConnectionReader::read_message on a message that has arrived; only a
\* Pong needs the lock.
LockedRead ==
    /\ \E m \in InboundMessages :
         LET l == IF m.cmd = "pong" THEN lock(writer) ELSE "acquired" IN
         /\ l # "blocked"
         /\ outbound_ping_state' =
               IF m.cmd = "pong"
                 THEN PongArm(l, outbound_ping_state, m.nonce, now)
                 ELSE outbound_ping_state
         /\ ret' = ReadReturn(l, m)
    /\ UNCHANGED <<now, channel, sender, writer, written, submitted>>
    /\ UNCHANGED <<hvars, rvars, fvars>>

\* ConnectionMetrics::ping_timed_out (lib.rs 105-113): false when the lock
\* fails.
ping_timed_out_locked(l, state, t, timeout) ==
    IF l = "acquired" THEN ping_timed_out(state, t, timeout) ELSE FALSE

LockedPingTimedOut ==
    /\ lock(writer) # "blocked"
    /\ \E timeout \in QueryTimeouts :
         ret' = [Ret("ping_timed_out") EXCEPT
                   !.flag = ping_timed_out_locked(lock(writer), outbound_ping_state,
                                                  now, timeout),
                   !.timeout = timeout]
    /\ UNCHANGED <<now, outbound_ping_state, channel, sender, writer, written,
                   submitted>>
    /\ UNCHANGED <<hvars, rvars, fvars>>

LockNext ==
    \/ Tick
    \/ SendMessage
    \/ WriterRecv
    \/ WriterTimeout
    \/ CheckLock
    \/ CheckState
    \/ CheckRecord
    \/ LockedRead
    \/ LockedPingTimedOut

LockSpec == ConnInit /\ [][LockNext]_vars

----------------------------------------------------------------------------
(* The rate accumulators on their own: lib.rs 130-226, driven as the unit  *)
(* tests of lib.rs drive them.                                             *)

\* The instants and the counts of the calls.
RateTimes == {0, 5, 10}
RateCounts == {0, 1, 9, 10, 1000}
RateCategories == {"Addr", "Block"}

RateInit ==
    /\ Init
    /\ config = ConnectionConfig(PROTOCOL_VERSION, SERVICES, CmpctConfig(0),
                                 BROADCAST_MIN, FALSE)
    /\ nonce = 1
    /\ pc = "start"

\* Time passes between two calls.
RateTick ==
    /\ \E t \in RateTimes : t > now /\ now' = t
    /\ UNCHANGED <<outbound_ping_state, channel, sender, writer, written,
                   submitted, ret>>
    /\ UNCHANGED <<hvars, rvars, fvars>>

\* timed_messages.add_many(TimedMessage::Addr, n, now)
AddMany ==
    /\ Len(recorded) < MaxRecords
    /\ \E n \in RateCounts :
         /\ timed_messages' = add_many(timed_messages, "Addr", n, now)
         /\ recorded' = Append(recorded, Record("Addr", n, now))
    /\ UNCHANGED their_preferences
    /\ UNCHANGED <<hvars, cvars, fvars>>

\* timed_messages.add_single(TimedMessage::Block, now)
AddSingle ==
    /\ Len(recorded) < MaxRecords
    /\ timed_messages' = add_single(timed_messages, "Block", now)
    /\ recorded' = Append(recorded, Record("Block", 1, now))
    /\ UNCHANGED their_preferences
    /\ UNCHANGED <<hvars, cvars, fvars>>

\* Instant::duration_since: zero when the earlier instant is the later one.
duration_since(t, earlier) == IF t >= earlier THEN t - earlier ELSE 0

messages_per_secs_of_clock(rate, t) ==
    IF rate.kind = "NoneReceived" THEN <<>>
    ELSE <<[num |-> rate.count, den |-> t]>>

\* MessageRate::messages_per_secs (lib.rs 157-164): the f64 quotient is
\* kept as the pair of its terms; den 0 is the infinite quotient.
messages_per_secs(rate, t) ==
    IF rate.kind = "NoneReceived" THEN <<>>
    ELSE <<[num |-> rate.count, den |-> duration_since(t, rate.start)]>>

\* MessageRate::total_count (lib.rs 167-172): `as u32` saturates.
total_count(rate) ==
    IF rate.kind = "NoneReceived" THEN 0
    ELSE IF rate.count > U32_MAX THEN U32_MAX ELSE rate.count

\* TimedMessages::message_rate (lib.rs 221-225)
message_rate(tm, message) == tm[message]

\* ConnectionMetrics::message_rate (lib.rs 94-97) followed by the two
\* queries on the copy it returns.
MessageRateQuery ==
    /\ \E c \in RateCategories :
         ret' = [Ret("message_rate") EXCEPT
                   !.input = <<c>>,
                   !.msg = messages_per_secs(message_rate(timed_messages, c), now),
                   !.count = total_count(message_rate(timed_messages, c))]
    /\ UNCHANGED <<now, outbound_ping_state, channel, sender, writer, written,
                   submitted>>
    /\ UNCHANGED <<hvars, rvars, fvars>>

RateNext == RateTick \/ AddMany \/ AddSingle \/ MessageRateQuery

RateSpec == RateInit /\ [][RateNext]_vars

----------------------------------------------------------------------------
(* The V1 transport: net.rs 322-370. The stream is a sequence of bytes.    *)

\* The magic of the network the connection is configured for, and the magic
\* of another network.
MAGIC_BITCOIN == <<249, 190, 180, 217>>
MAGIC_TESTNET == <<11, 17, 9, 7>>
Magics == {MAGIC_BITCOIN, MAGIC_TESTNET}

\* The frames a call may write, the bytes the end of the stream may lose and
\* the reads of one run.
MaxFrames == 2
MaxCut == 9
MaxReads == 3

\* Little-endian integers of a given width.
RECURSIVE LE(_, _)
LE(n, width) == IF width = 0 THEN <<>> ELSE <<n % 256>> \o LE(n \div 256, width - 1)
RECURSIVE BE(_, _)
BE(n, width) == IF width = 0 THEN <<>> ELSE BE(n \div 256, width - 1) \o <<n % 256>>
RECURSIVE FromLE(_)
FromLE(bytes) == IF bytes = <<>> THEN 0 ELSE Head(bytes) + 256 * FromLE(Tail(bytes))

\* CommandString: 12 bytes, the ASCII name padded with zeros.
Zeros(n) == [i \in 1..n |-> 0]
CommandBytes(cmd) ==
    LET ascii == CASE cmd = "verack" -> <<118, 101, 114, 97, 99, 107>>
                   [] cmd = "ping" -> <<112, 105, 110, 103>>
                   [] OTHER -> <<63>>
    IN  ascii \o Zeros(12 - Len(ascii))

\* The payload of a message: verack has none, ping is its nonce as u64.
Payload(m) == IF m.cmd = "ping" THEN LE(m.nonce, 8) ELSE <<>>

\* The first four bytes of the double SHA-256 of the payload: the real
\* value for the empty payload, and a stand-in that tells the modelled
\* payloads apart for the others.
RECURSIVE SumBytes(_)
SumBytes(bytes) == IF bytes = <<>> THEN 0 ELSE Head(bytes) + SumBytes(Tail(bytes))
checksum(payload) ==
    IF payload = <<>> THEN <<93, 246, 224, 226>>
    ELSE <<(SumBytes(payload) * 31 + 7) % 256, Len(payload) % 256, 170, 85>>

\* One frame: header fields and payload.
Frame(magic, command, length, sum, payload) ==
    magic \o command \o length \o sum \o payload

serialize_be_length(magic, m) ==
    Frame(magic, CommandBytes(m.cmd), BE(Len(Payload(m)), 4),
          checksum(Payload(m)), Payload(m))

\* consensus::serialize(&RawNetworkMessage::new(magic, m)) (net.rs 336-337)
serialize(magic, m) ==
    Frame(magic, CommandBytes(m.cmd), LE(Len(Payload(m)), 4),
          checksum(Payload(m)), Payload(m))

\* The messages written, and frames of a peer that does not conform: a
\* wrong checksum, and a ping without its nonce.
FrameMessages == {Verack, Ping(1), Ping(2)}
MalformedFrames ==
    {Frame(MAGIC_BITCOIN, CommandBytes("ping"), LE(8, 4), <<0, 0, 0, 0>>, LE(1, 8)),
     Frame(MAGIC_BITCOIN, CommandBytes("ping"), LE(0, 4), checksum(<<>>), <<>>)}

\* The fields of consensus::deserialize::<V1MessageHeader> (net.rs 357)
header_magic(buf) == SubSeq(buf, 1, 4)
header_command(buf) == SubSeq(buf, 5, 16)
header_length(buf) == FromLE(SubSeq(buf, 17, 20))
header_checksum(buf) == SubSeq(buf, 21, 24)

\* The outcome of one read and the bytes it took from the stream.
ReadResult(kind, n) == [kind |-> kind, magic |-> <<>>, msg |-> <<>>, consumed |-> n]
ReadOk(m, n) == [ReadResult("Ok", n) EXCEPT !.msg = <<m>>]

\* consensus::deserialize::<RawNetworkMessage> followed by into_payload
\* (net.rs 365-366), on a buffer of a header and the payload it announces.
deserialize(buf) ==
    LET payload == SubSeq(buf, 25, Len(buf)) IN
    IF header_checksum(buf) # checksum(payload)
      THEN ReadResult("Deserialize", Len(buf))
    ELSE IF header_command(buf) = CommandBytes("verack")
      THEN ReadOk(Verack, Len(buf))
    ELSE IF header_command(buf) = CommandBytes("ping")
      THEN IF Len(payload) < 8 THEN ReadResult("Deserialize", Len(buf))
           ELSE ReadOk(Ping(FromLE(SubSeq(payload, 1, 8))), Len(buf))
    ELSE ReadOk(BaseMsg("unknown"), Len(buf))

read_message_magic_last(magic, s) ==
    IF Len(s) < 24 THEN ReadResult("Io", Len(s))
    ELSE IF Len(s) < 24 + header_length(s) THEN ReadResult("Io", Len(s))
    ELSE IF header_magic(s) # magic
           THEN [ReadResult("UnexpectedMagic", 24 + header_length(s))
                   EXCEPT !.magic = header_magic(s)]
           ELSE deserialize(SubSeq(s, 1, 24 + header_length(s)))

\* ReadTransport::read_message (net.rs 352-369) on a stream that holds s and
\* then ends: read_exact fails with UnexpectedEof, an io::Error, when the
\* stream ends before the buffer is full.
read_message(magic, s) ==
    IF Len(s) < 24 THEN ReadResult("Io", Len(s))
    ELSE IF header_magic(s) # magic
           THEN [ReadResult("UnexpectedMagic", 24) EXCEPT !.magic = header_magic(s)]
    ELSE IF Len(s) < 24 + header_length(s) THEN ReadResult("Io", Len(s))
    ELSE deserialize(SubSeq(s, 1, 24 + header_length(s)))

\* The bytes of the stream decide the outcome: read_exact blocks while the
\* stream is open and holds fewer bytes than asked for.
ReadReady(magic, s, closed) ==
    IF closed THEN TRUE
    ELSE IF Len(s) < 24 THEN FALSE
    ELSE IF header_magic(s) # magic THEN TRUE
    ELSE Len(s) >= 24 + header_length(s)

FrameInit == RateInit

\* WriteTransport::write_message (net.rs 328-344) by a peer of either network
WriteMessage ==
    /\ Len(sent) < MaxFrames
    /\ ~eof
    /\ \E m \in FrameMessages, magic \in Magics :
         /\ stream' = stream \o serialize(magic, m)
         /\ sent' = Append(sent, [msg |-> <<m>>, magic |-> magic,
                                  bytes |-> serialize(magic, m)])
    /\ UNCHANGED <<eof, received>>
    /\ UNCHANGED <<hvars, cvars, rvars>>

\* A peer that does not conform writes a frame.
PeerWriteMalformed ==
    /\ Len(sent) < MaxFrames
    /\ ~eof
    /\ \E f \in MalformedFrames :
         /\ stream' = stream \o f
         /\ sent' = Append(sent, [msg |-> <<>>, magic |-> header_magic(f), bytes |-> f])
    /\ UNCHANGED <<eof, received>>
    /\ UNCHANGED <<hvars, cvars, rvars>>

\* The stream ends; its last bytes may never arrive.
PeerClose ==
    /\ ~eof
    /\ eof' = TRUE
    /\ \E d \in 0..Min(MaxCut, Len(stream)) :
         stream' = SubSeq(stream, 1, Len(stream) - d)
    /\ UNCHANGED <<sent, received>>
    /\ UNCHANGED <<hvars, cvars, rvars>>

\* ReadTransport::read_message of a transport configured for MAGIC_BITCOIN
TransportRead ==
    /\ Len(received) < MaxReads
    /\ ReadReady(MAGIC_BITCOIN, stream, eof)
    /\ LET r == read_message(MAGIC_BITCOIN, stream) IN
         /\ received' = Append(received, r)
         /\ stream' = SubSeq(stream, r.consumed + 1, Len(stream))
    /\ UNCHANGED <<eof, sent>>
    /\ UNCHANGED <<hvars, cvars, rvars>>

FrameNext == WriteMessage \/ PeerWriteMalformed \/ PeerClose \/ TransportRead

FrameSpec == FrameInit /\ [][FrameNext]_vars

----------------------------------------------------------------------------
(* Properties of the established connection.                               *)

Probes == {i \in 1..Len(written) : written[i].probe}

\* C12: when recv_timeout returns Timeout and the ping interval has elapsed
\* since the last confirmation, the actor goes on to the liveness check and
\* the state becomes Waiting: either the step itself issues the Ping or it
\* leaves the actor at the check.
C12_TimeoutFallsThrough ==
    [][(/\ WriterIdle
        /\ now' = now + RecvTimeout
        /\ PingDue(outbound_ping_state, now', PingInterval))
          => (outbound_ping_state'.kind = "Waiting" \/ writer'.pc = "check")]_vars

\* What the code does instead: without caller traffic no Ping is ever
\* written, however long the silence.
NoTrafficNoProbe == submitted = <<>> => Probes = {}

\* The silence has lasted longer than the interval and two receive
\* timeouts, the actor is alive, and the state is still LastReceived.
SilentPastInterval ==
    /\ submitted = <<>>
    /\ writer.pc = "recv"
    /\ outbound_ping_state.kind = "LastReceived"
    /\ now - outbound_ping_state.then > PingInterval + 2 * RecvTimeout

\* The step appends a Ping of the actor's own to the stream.
ProbeWritten ==
    /\ Len(written') = Len(written) + 1
    /\ written'[Len(written')].probe

\* C13: at most one ping is outstanding: the actor writes a Ping of its
\* own only in a step that starts in LastReceived, never while the state
\* is Waiting, and the step leaves the state Waiting for that Ping, so
\* that a confirmation by the reader lies between any two such Pings.
C13_OnePingOutstanding ==
    [][ProbeWritten =>
         /\ outbound_ping_state.kind = "LastReceived"
         /\ outbound_ping_state'.kind = "Waiting"
         /\ written'[Len(written')].msg = Ping(outbound_ping_state'.nonce)]_vars

\* A second Ping has been written, after the first was confirmed.
C13_Witness ==
    /\ Cardinality(Probes) = 2
    /\ outbound_ping_state.kind = "Waiting"

\* What only the caller and the actor change: a step of the reader or of
\* the metrics handle leaves all of it alone.
WriterSide == <<now, channel, sender, writer, written, submitted>>

\* C14: the state goes from LastReceived to Waiting only in a step of the
\* actor's liveness check, only when the time since the last confirmation
\* is strictly greater than the ping interval; the step writes exactly one
\* Ping and records the nonce of that Ping and the time of the step.  No
\* call on the reader or the metrics handle returns in such a step.
C14_OnlyWriterStartsWaiting ==
    [][(/\ outbound_ping_state.kind = "LastReceived"
        /\ outbound_ping_state'.kind = "Waiting")
          => /\ writer.pc = "check"
             /\ writer' = Actor("recv", NoError)
             /\ now - outbound_ping_state.then > PingInterval
             /\ written' = Append(written,
                                  Entry(Ping(outbound_ping_state'.nonce), TRUE))
             /\ outbound_ping_state'.then = now
             /\ ret' = ret]_vars

\* The transition has been taken later than at the first possible moment.
C14_Witness ==
    /\ outbound_ping_state.kind = "Waiting"
    /\ outbound_ping_state.then > PingInterval + 1
    /\ Cardinality(Probes) = 1

\* The step is a read_message call that read message m.
ReadStep(m) ==
    /\ ret'.op = "read_message"
    /\ ret'.ok
    /\ ret'.input = <<m>>
    /\ UNCHANGED WriterSide

\* C15: the state goes from Waiting to LastReceived only in a read_message
\* call that read a Pong with the pending nonce, and such a read records the
\* time of the read; a Pong with another nonce, and any Pong read in
\* LastReceived, leaves the state and its timestamp as they were; the Pong
\* is returned to the caller in every case.
C15_OnlyMatchingPongConfirms ==
    [][/\ (/\ outbound_ping_state.kind = "Waiting"
            /\ outbound_ping_state'.kind = "LastReceived")
              => /\ ReadStep(Pong(outbound_ping_state.nonce))
                 /\ outbound_ping_state' = LastReceived(now)
       /\ \A n \in Nonces :
            ReadStep(Pong(n)) =>
              /\ ret'.msg = <<Pong(n)>>
              /\ IF /\ outbound_ping_state.kind = "Waiting"
                    /\ outbound_ping_state.nonce = n
                   THEN outbound_ping_state' = LastReceived(now)
                   ELSE outbound_ping_state' = outbound_ping_state]_vars

\* A Pong with the pending nonce has been read and returned some time after
\* the Ping.
C15_Witness ==
    /\ outbound_ping_state.kind = "LastReceived"
    /\ outbound_ping_state.then > PingInterval + 1
    /\ ret.op = "read_message"
    /\ ret.msg # <<>>
    /\ ret.msg[1].cmd = "pong"
    /\ Probes # {}

\* A Pong with another nonce has been read while a Ping is pending.
PongIgnored ==
    /\ outbound_ping_state.kind = "Waiting"
    /\ ret.op = "read_message"
    /\ ret.msg # <<>>
    /\ ret.msg[1].cmd = "pong"
    /\ ret.msg[1].nonce # outbound_ping_state.nonce

\* C16: a ping_timed_out call returns false whenever the state is
\* LastReceived, returns true in Waiting iff the time since the Ping is
\* greater than the timeout it was given, and leaves the state alone.
C16_PingTimedOut ==
    [][(ret'.op = "ping_timed_out" /\ ret' # ret)
          => /\ outbound_ping_state' = outbound_ping_state
             /\ UNCHANGED WriterSide
             /\ outbound_ping_state.kind = "LastReceived" => ~ret'.flag
             /\ outbound_ping_state.kind = "Waiting"
                   => (ret'.flag <=> now - outbound_ping_state.then > ret'.timeout)]_vars

\* The query has answered true for a pending Ping.
C16_Witness ==
    /\ ret.op = "ping_timed_out"
    /\ ret.flag
    /\ outbound_ping_state.kind = "Waiting"

\* The query has answered false although the last confirmation is older
\* than the timeout.
TimedOutFalseInLastReceived ==
    /\ ret.op = "ping_timed_out"
    /\ ~ret.flag
    /\ outbound_ping_state.kind = "LastReceived"
    /\ now - outbound_ping_state.then > ret.timeout

\* The messages of the caller on the stream, in the order written.
RECURSIVE CallerWritten(_)
CallerWritten(w) ==
    IF w = <<>> THEN <<>>
    ELSE IF Head(w).probe THEN CallerWritten(Tail(w))
    ELSE <<Head(w).msg>> \o CallerWritten(Tail(w))

\* C17: as long as no write has failed, the messages submitted through the
\* writer handle are the messages of the caller on the stream followed by
\* the messages still queued, in the order of submission: none is lost,
\* duplicated or reordered, and the Pings of the actor stand between whole
\* messages.
C17_SubmissionOrder ==
    writer.result = NoError => submitted = CallerWritten(written) \o channel

\* Two different messages were submitted and written, and the actor wrote
\* a Ping of its own between them.
C17_Witness ==
    /\ writer.result = NoError
    /\ Len(written) = 3
    /\ written[2].probe
    /\ CallerWritten(written) = submitted
    /\ submitted[1] # submitted[2]

\* C18: the actor ends with Ok only after every Sender is gone and
\* everything submitted has been written in the order of submission, and
\* once the Sender is dropped the actor does end.
C18_DrainThenExit ==
    /\ [](writer = Actor("exited", NoError)
            => /\ sender = "dropped"
               /\ channel = <<>>
               /\ CallerWritten(written) = submitted)
    /\ [](sender = "dropped" => <>(writer.pc = "exited"))

\* The handle was dropped with two messages submitted, and the actor has
\* written both and ended with Ok.
C18_Witness ==
    /\ writer = Actor("exited", NoError)
    /\ Len(submitted) = 2
    /\ CallerWritten(written) = submitted

\* The step is a send_message call: it returns, or it queues a message.
SendStep ==
    /\ ret'.op = "send_message"
    /\ ret' # ret \/ submitted' # submitted

\* C19: a send_message call fails iff the actor has exited, and the actor
\* never starts again; a call that succeeds queues its message behind the
\* ones already queued, a call that fails queues nothing.
C19_SendAfterExit ==
    [][/\ SendStep =>
            /\ ret'.ok <=> writer.pc # "exited"
            /\ IF ret'.ok
                 THEN /\ channel' = Append(channel, ret'.msg[1])
                      /\ submitted' = Append(submitted, ret'.msg[1])
                 ELSE UNCHANGED <<channel, submitted>>
       /\ writer.pc = "exited" => writer' = writer]_vars

\* A send_message call has failed after a write of the actor failed.
C19_Witness ==
    /\ ret.op = "send_message"
    /\ ~ret.ok
    /\ writer = Actor("exited", Io)

TakeErrorsNone == ret.op = "take_errors" /\ ret.ok

----------------------------------------------------------------------------
(* Properties of the supervisor, the trackers and the transport.           *)

IsPrefix(p, q) == Len(p) <= Len(q) /\ p = SubSeq(q, 1, Len(p))

\* The messages the two engine calls have suggested so far.
Suggested ==
    (IF started # <<>> /\ started[1].ret.err = NoError
       THEN started[1].ret.messages ELSE <<>>)
    \o (IF negotiated # <<>> /\ negotiated[1].ret.err = NoError
         THEN negotiated[1].ret.messages ELSE <<>>)

\* C21: whichever way the handshake was entered, nothing is read before our
\* version message is on the stream, the version is the first message
\* written and the only version written, and each batch of suggested
\* messages is on the stream whole and in order before the next message is
\* read; a handshake that fails has written a prefix of that sequence.
C21_WriteOrder ==
    LET ours == build_our_version(config, UnixTime, nonce) IN
    /\ pc \in {"open_connection", "listen", "start"}
         => wire = <<>> /\ started = <<>> /\ negotiated = <<>>
    /\ (started # <<>> \/ negotiated # <<>>) => (wire # <<>> /\ wire[1] = ours)
    /\ Cardinality({i \in 1..Len(wire) : wire[i].cmd = "version"}) <= 1
    /\ pc \in {"await_version", "negotiating", "completed"}
         => wire = <<ours>> \o Suggested
    /\ pc = "failed" => IsPrefix(wire, <<ours>> \o Suggested)

\* A handshake has completed with both batches written: three upgrade
\* messages and the four messages of the finalization batch.
C21_Witness ==
    /\ pc = "completed"
    /\ Len(wire) = 8
    /\ wire[8] = GetAddr

\* The FeelerData the claim describes, from the first message read.
FeelerOf(version) ==
    [effective_version |-> Min(config.our_version, version.version),
     services |-> version.services,
     net_time_difference |-> UnixTime - version.timestamp,
     reported_height |-> version.start_height,
     nonce |-> nonce]

\* C29: the FeelerData of a successful start_handshake holds the lower of
\* the two versions, the peer's services, our time minus the peer's
\* timestamp, the peer's height and our nonce, and the session during
\* negotiation and the metrics handle at completion hold that same value.
C29_FeelerData ==
    StartedOk =>
      /\ started[1].ret.handshake[1].feeler = FeelerOf(started[1].message)
      /\ pc = "negotiating" => handshake[1].feeler = FeelerOf(started[1].message)
      /\ pc = "completed"
           => returned[1].metrics.feeler = FeelerOf(started[1].message)

\* What does hold: the value start_handshake computed is the one the
\* session keeps and the metrics handle exposes.
FeelerNeverMutated ==
    StartedOk =>
      /\ pc = "negotiating"
           => handshake[1].feeler = started[1].ret.handshake[1].feeler
      /\ pc = "completed"
           => returned[1].metrics.feeler = started[1].ret.handshake[1].feeler

\* The handshake has completed on the wrapped time difference.
WrappedDifferenceExposed ==
    /\ pc = "completed"
    /\ started[1].message = ExtremeVersion
    /\ returned[1].metrics.feeler.net_time_difference < 0

\* The subtraction has panicked.
Panicked == pc = "panicked"

\* C28: every feature announcement the reader reads after the handshake
\* sets its preference in the shared record: SendHeaders, SendAddrV2 and
\* WtxidRelay their flag, SendCmpct its version, and the metrics handle
\* returns the record as it is.
C28_ReaderAccumulates ==
    [][/\ ReadStep(SendHeaders) => their_preferences'.sendheaders
       /\ ReadStep(SendAddrV2) => their_preferences'.sendaddrv2
       /\ ReadStep(WtxidRelay) => their_preferences'.sendwtxid
       /\ \A v \in 1..MaxCmpctVersion :
            ReadStep(SendCmpct(TRUE, v)) => their_preferences'.sendcmpct.version = v
       /\ ret'.op = "their_preferences" => ret'.msg = <<their_preferences'>>]_vars

\* What does hold: the two announcements the reader knows are recorded.
ReaderKnowsTwo ==
    [][/\ ReadStep(SendHeaders) => their_preferences'.sendheaders
       /\ \A v \in 1..MaxCmpctVersion :
            ReadStep(SendCmpct(TRUE, v)) => their_preferences'.sendcmpct.version = v]_vars

\* The reader never sets the two flags it has no arm for.
ReaderNeverSetsTwo ==
    ~their_preferences.sendaddrv2 /\ ~their_preferences.sendwtxid

\* C30: a take_errors call that is pending has dropped the only Sender, so
\* the actor, waiting at an empty queue, observes the disconnection: it
\* never returns from recv_timeout with Timeout while the call is pending.
C30_JoinObservesDisconnect ==
    [][sender = "joining" => ~WriterTimeout]_vars

\* What the code does instead: take_errors has been pending for as long as
\* the clock of the model runs, the actor has not failed and still waits
\* for a message.
JoinStillPending ==
    /\ sender = "joining"
    /\ WriterIdle
    /\ submitted = <<>>
    /\ now = MaxTime

\* take_errors returns only after a write of the actor has failed.
JoinReturnsOnFailureOnly ==
    ret.op = "take_errors" => writer = Actor("exited", Io)

\* The step is one add_messages call.
RecordStep == Len(recorded') = Len(recorded) + 1

\* C26: a record of count 0 leaves the accumulator as it was; the first
\* record of a count above 0 sets it to that count and the time of the
\* call; every later record adds its count and keeps the first time; the
\* other accumulators are left alone, and an accumulator that holds data
\* never goes back to holding none.
C26_Accumulate ==
    [][/\ RecordStep =>
            LET rec == recorded'[Len(recorded')]
                old == timed_messages[rec.category]
                new == timed_messages'[rec.category]
            IN  /\ rec.time = now
                /\ \A c \in TimedMessage \ {rec.category} :
                     timed_messages'[c] = timed_messages[c]
                /\ rec.count = 0 => new = old
                /\ (rec.count > 0 /\ old.kind = "NoneReceived")
                     => new = Ongoing(rec.count, rec.time)
                /\ (rec.count > 0 /\ old.kind = "Ongoing")
                     => new = Ongoing(old.count + rec.count, old.start)
       /\ \A c \in TimedMessage :
            timed_messages[c].kind = "Ongoing" => timed_messages'[c].kind = "Ongoing"]_vars

\* A record of 0 on an empty accumulator, then a first record, then a later
\* one at a later time: the first time is kept.
C26_Witness ==
    /\ Len(recorded) = 3
    /\ \A i \in 1..3 : recorded[i].category = "Addr"
    /\ recorded[1].count = 0
    /\ recorded[2].count > 0
    /\ recorded[3].count > 0
    /\ recorded[3].time > recorded[2].time
    /\ timed_messages["Addr"] =
         Ongoing(recorded[2].count + recorded[3].count, recorded[2].time)

\* The records of a category that carried messages, their sum and the
\* first of them.
Carrying(c) == {i \in 1..Len(recorded) : recorded[i].category = c /\ recorded[i].count > 0}
RECURSIVE SumCounts(_, _)
SumCounts(seq, c) ==
    IF seq = <<>> THEN 0
    ELSE (IF Head(seq).category = c THEN Head(seq).count ELSE 0)
         + SumCounts(Tail(seq), c)
FirstCarrying(c) == CHOOSE i \in Carrying(c) : \A j \in Carrying(c) : i <= j

\* C27: the rate query returns none iff no message was ever recorded for
\* the category, and otherwise the quotient of the sum of the counts by the
\* seconds from the first record to the query; 1 at t0 and 9 at t0+10 give
\* 1 per second at t0+10, 10 more then give 2 per second, and 1000 at t0
\* give 100 per second at t0+10 with a total count of 1000.
C27_RateQuery ==
    [][(ret'.op = "message_rate" /\ ret' # ret) =>
         LET c == ret'.input[1] IN
         /\ ret'.msg = <<>> <=> Carrying(c) = {}
         /\ ret'.count = SumCounts(recorded, c)
         /\ Carrying(c) # {} =>
              /\ ret'.msg[1].num = SumCounts(recorded, c)
              /\ ret'.msg[1].den = now - recorded[FirstCarrying(c)].time
         /\ (/\ c = "Addr" /\ now = 10
             /\ recorded = <<Record("Addr", 1, 0), Record("Addr", 9, 10)>>)
              => ret'.msg[1].num = 1 * ret'.msg[1].den
         /\ (/\ c = "Addr" /\ now = 10
             /\ recorded = <<Record("Addr", 1, 0), Record("Addr", 9, 10),
                             Record("Addr", 10, 10)>>)
              => ret'.msg[1].num = 2 * ret'.msg[1].den
         /\ (/\ c = "Addr" /\ now = 10
             /\ recorded = <<Record("Addr", 1000, 0)>>)
              => /\ ret'.msg[1].num = 100 * ret'.msg[1].den
                 /\ ret'.count = 1000]_vars

\* The second example has been queried: 20 messages over 10 seconds.
C27_Witness ==
    /\ ret.op = "message_rate"
    /\ ret.input = <<"Addr">>
    /\ now = 10
    /\ recorded = <<Record("Addr", 1, 0), Record("Addr", 9, 10),
                    Record("Addr", 10, 10)>>
    /\ ret.msg = <<[num |-> 20, den |-> 10]>>

\* The first and the third example have been queried.
RateOnePerSecond ==
    /\ ret.op = "message_rate"
    /\ recorded = <<Record("Addr", 1, 0), Record("Addr", 9, 10)>>
    /\ ret.msg = <<[num |-> 10, den |-> 10]>>
RateHundredPerSecond ==
    /\ ret.op = "message_rate"
    /\ recorded = <<Record("Addr", 1000, 0)>>
    /\ ret.msg = <<[num |-> 1000, den |-> 10]>>
    /\ ret.count = 1000

\* A query at the instant of the first record: the quotient is infinite.
RateAtFirstInstant ==
    /\ ret.op = "message_rate"
    /\ ret.msg # <<>>
    /\ ret.msg[1].den = 0

\* The step is one read_message call of the transport; what it returned.
TransportReadStep == Len(received') = Len(received) + 1
LastRead == received'[Len(received')]

\* C22: a read that finds a 24-byte header whose magic is not the
\* configured one fails with UnexpectedMagic carrying the magic received,
\* whatever the command and the payload are and whether or not the payload
\* has arrived; it takes the 24 bytes of the header and no byte after them.
C22_UnexpectedMagic ==
    [][(/\ TransportReadStep
        /\ Len(stream) >= 24
        /\ header_magic(stream) # MAGIC_BITCOIN)
         => /\ LastRead = [ReadResult("UnexpectedMagic", 24)
                             EXCEPT !.magic = header_magic(stream)]
            /\ stream' = SubSeq(stream, 25, Len(stream))]_vars

\* A ping of the other network, valid in everything but the magic, has been
\* read: the error carries its magic and the payload is still in the stream.
C22_Witness ==
    /\ Len(sent) >= 1
    /\ sent[1].msg = <<Ping(1)>>
    /\ sent[1].magic = MAGIC_TESTNET
    /\ received = <<[ReadResult("UnexpectedMagic", 24) EXCEPT !.magic = MAGIC_TESTNET]>>
    /\ Len(stream) >= 8
    /\ SubSeq(stream, 1, 8) = Payload(Ping(1))

\* The stream has ended inside the payload of the frame at its head.
TruncatedPayload ==
    /\ eof
    /\ Len(stream) >= 24
    /\ header_magic(stream) = MAGIC_BITCOIN
    /\ Len(stream) < 24 + header_length(stream)

\* C23: a read of a frame with a valid header whose payload is cut short
\* by the end of the stream fails with the Deserialize error kind.
C23_TruncatedIsDeserialize ==
    [][(TransportReadStep /\ TruncatedPayload) => LastRead.kind = "Deserialize"]_vars

\* What the read of such a frame returns: the Io error kind.
TruncatedIsIo ==
    [][(TransportReadStep /\ TruncatedPayload) => LastRead.kind = "Io"]_vars

\* Such a frame has been read.
TruncatedPayloadRead ==
    /\ Len(sent) = 1
    /\ sent[1].msg = <<Ping(1)>>
    /\ sent[1].magic = MAGIC_BITCOIN
    /\ received = <<ReadResult("Io", 28)>>

\* The stream has ended inside the header or the payload of the frame at
\* its head.
PartialFrame ==
    /\ eof
    /\ stream # <<>>
    /\ Len(stream) < 24 \/ TruncatedPayload

\* The result Ok(None).
NoMessage(r) == r.kind = "Ok" /\ r.msg = <<>>

\* C24: a read returns no message, without an error, when and only when
\* the stream has ended before any byte of a frame was read; when it ends
\* after a part of a header or of a payload the read fails.
C24_EndOfStreamIsNoMessage ==
    [][TransportReadStep =>
         /\ NoMessage(LastRead) <=> (eof /\ stream = <<>>)
         /\ PartialFrame => LastRead.kind # "Ok"]_vars

\* The half of it that holds: the read of a frame the end of the stream
\* has cut short fails with the Io error kind.
PartialIsError ==
    [][(TransportReadStep /\ PartialFrame) => LastRead.kind = "Io"]_vars

\* No read ever returns Ok(None).
ReadNeverNone == \A i \in 1..Len(received) : ~NoMessage(received[i])

\* A read at the end of a stream that was closed before any byte of a frame:
\* it failed with the Io error kind.
EndOfStreamRead ==
    /\ sent = <<>>
    /\ eof
    /\ received = <<ReadResult("Io", 0)>>

\* The stream has ended inside a header or a payload and the read failed.
PartialFrameRead ==
    /\ eof
    /\ \E i \in 1..Len(received) :
         received[i].kind = "Io" /\ received[i].consumed > 0

\* The frames from the i-th on, as they were written.
RECURSIVE FramesFrom(_)
FramesFrom(i) == IF i > Len(sent) THEN <<>> ELSE sent[i].bytes \o FramesFrom(i + 1)

\* The first i frames were written by write_message with the configured magic.
Conforming(i) ==
    /\ i <= Len(sent)
    /\ \A j \in 1..i : sent[j].msg # <<>> /\ sent[j].magic = MAGIC_BITCOIN

\* C25: while the stream is open, the i-th read of frames written by
\* write_message with the reader's magic returns the i-th message written
\* and has taken 24 + length bytes; every frame written is one whole frame
\* of 24 + length bytes, and after k such reads the stream holds exactly the
\* frames from the k+1-th on, untouched.
C25_RoundTrip ==
    /\ \A j \in 1..Len(sent) :
         sent[j].msg # <<>> =>
           /\ Len(sent[j].bytes) = 24 + Len(Payload(sent[j].msg[1]))
           /\ header_length(sent[j].bytes) = Len(Payload(sent[j].msg[1]))
    /\ ~eof =>
         /\ \A i \in 1..Len(received) :
              Conforming(i) =>
                received[i] = ReadOk(sent[i].msg[1],
                                     24 + Len(Payload(sent[i].msg[1])))
         /\ Conforming(Len(received)) => stream = FramesFrom(Len(received) + 1)

\* Two messages, one with a payload, written and read back; and one read
\* back while the frame of the other is still whole in the stream.
C25_Witness ==
    /\ ~eof
    /\ Len(sent) = 2
    /\ Conforming(2)
    /\ sent[1].msg = <<Ping(2)>>
    /\ received = <<ReadOk(Ping(2), 32), ReadOk(sent[2].msg[1], 24)>>
    /\ stream = <<>>
OneReadOneLeft ==
    /\ ~eof
    /\ Conforming(2)
    /\ Len(received) = 1
    /\ stream = sent[2].bytes

\* A frame with a wrong checksum, and a ping without its nonce, have been
\* read: both fail with the Deserialize error kind.
MalformedIsDeserialize ==
    \A i \in 1..Len(received) :
      (Len(sent) >= i /\ (\A j \in 1..i - 1 : Conforming(j)) /\ sent[i].msg = <<>>
         /\ received[i].consumed = Len(sent[i].bytes))
        => received[i].kind = "Deserialize"
MalformedRead ==
    /\ Len(sent) = 2
    /\ sent[1].msg = <<>>
    /\ sent[2].msg = <<>>
    /\ sent[1] # sent[2]
    /\ Len(received) = 2
    /\ received[1].kind = "Deserialize"
    /\ received[2].kind = "Deserialize"

\* The conditions a first message violates.
Violations(m) ==
    (IF m.cmd # "version" THEN {"IrrelevantMessage"} ELSE {})
    \cup (IF m.cmd = "version" /\ m.nonce = nonce THEN {"ConnectionToSelf"} ELSE {})
    \cup (IF m.cmd = "version" /\ m.version < VersionFloor THEN {"TooLowVersion"} ELSE {})
    \cup (IF m.cmd = "version" /\ Lacks(m.services, config.expected_services)
            THEN {"MissingService"} ELSE {})

\* The place of an error in the precedence.
Rank(kind) ==
    CASE kind = "IrrelevantMessage" -> 1
      [] kind = "ConnectionToSelf" -> 2
      [] kind = "TooLowVersion" -> 3
      [] kind = "MissingService" -> 4

\* C34: start_handshake reports an error iff the first message violates a
\* condition, and then exactly the one violated condition that comes first
\* in the order IrrelevantMessage, ConnectionToSelf, TooLowVersion,
\* MissingService: the error is a function of the message, our nonce and
\* the configuration.
C34_ErrorPrecedence ==
    started # <<>> =>
      LET m == started[1].message
          e == started[1].ret.err
      IN  /\ e = NoError <=> Violations(m) = {}
          /\ e # NoError =>
               /\ e.kind \in Violations(m)
               /\ \A k \in Violations(m) : Rank(e.kind) <= Rank(k)
               /\ result = e

\* A version message with our nonce, a version below the floor and a
\* required service missing: ConnectionToSelf is reported.
C34_Witness ==
    /\ started # <<>>
    /\ Violations(started[1].message) =
         {"ConnectionToSelf", "TooLowVersion", "MissingService"}
    /\ started[1].ret.err = ConnectionToSelf

\* A version message below the floor that lacks a required service:
\* TooLowVersion is reported.
LowAndLacking ==
    /\ started # <<>>
    /\ Violations(started[1].message) = {"TooLowVersion", "MissingService"}
    /\ started[1].ret.err.kind = "TooLowVersion"

\* The actor thread, or the handle that feeds it, exists.
ActorExists == writer_spawned \/ writer.pc # "none" \/ sender # "none"

\* C32: the writer actor exists only once the handshake is Completed and
\* the whole finalization batch is on the wire after our version and the
\* upgrade messages, with nothing written by the actor yet; a handshake that
\* has failed has spawned no actor and returned no handles.
C32_SpawnAfterHandshake ==
    /\ ActorExists =>
         /\ pc = "completed"
         /\ writer_spawned
         /\ returned # <<>>
         /\ NegotiatedOn("verack")
         /\ negotiated[1].ret.completed # <<>>
         /\ wire = <<build_our_version(config, UnixTime, nonce)>>
                     \o started[1].ret.messages \o negotiated[1].ret.messages
         /\ written = <<>> /\ channel = <<>> /\ submitted = <<>>
    /\ pc = "completed" => ActorExists
    /\ pc \in {"failed", "panicked"} => ~ActorExists /\ returned = <<>>

\* The actor has been spawned behind a batch that ends with GetAddr.
C32_Witness ==
    /\ writer = Actor("recv", NoError)
    /\ sender = "held"
    /\ Len(wire) >= 4
    /\ wire[Len(wire)] = GetAddr
    /\ wire[1].cmd = "version"

\* The batch was cut short by a failed write, or the stream could not be
\* cloned after the whole batch: no actor.
FailedBehindVerack ==
    /\ pc = "failed"
    /\ NegotiatedOn("verack")
    /\ negotiated[1].ret.completed # <<>>
    /\ wire[Len(wire)].cmd = "feefilter"
    /\ ~ActorExists

\* On the established connection the handshake's part of the wire is
\* final: whatever the actor writes comes after it.
HandshakeWireFrozen == [][wire' = wire]_vars

\* C33: a step of the handshake on a stream that has ended fails: it
\* returns a transport error or MissingVersion, never goes back to the
\* loop, and returns no handles and spawns no actor; and every step that
\* fails, at a read or at a write, returns an error and no handles.
C33_EndedStreamFails ==
    [][/\ (eof /\ pc \in {"await_version", "negotiating"}) =>
            /\ pc' = "failed"
            /\ result' \in TransportErrors \cup {MissingVersion}
       /\ pc' = "failed" =>
            /\ result' # NoError
            /\ returned' = <<>>
            /\ ~ActorExists'
            /\ handshake' = <<>>]_vars

\* The stream ended during the negotiation, after an announcement was
\* accepted, and the handshake has returned the Io error.
C33_Witness ==
    /\ eof
    /\ pc = "failed"
    /\ result = Io
    /\ StartedOk
    /\ observed # {}
    /\ returned = <<>>

\* The stream ended before the peer's version.
EndedBeforeVersion ==
    /\ eof
    /\ pc = "failed"
    /\ result = Io
    /\ started = <<>>
    /\ Len(wire) = 1

\* The messages an accumulator has counted.
Counted(rate) == IF rate.kind = "NoneReceived" THEN 0 ELSE rate.count

\* What the read of a message adds to a category.
Added(m, c) ==
    CASE m.cmd = "block" /\ c = "Block" -> 1
      [] m.cmd = "headers" /\ c = "BlockHeaders" -> 1
      [] m.cmd = "cfilter" /\ c = "CFilters" -> 1
      [] m.cmd \in {"addr", "addrv2"} /\ c = "Addr" -> m.addrs
      [] OTHER -> 0

\* C35: the read of a message adds to each category what belongs to it:
\* Block, Headers and CFilter add 1 to their own category, Addr and AddrV2
\* add the length of their list to Addr, and every category that gets
\* nothing, all four for any other message, is left exactly as it was; the
\* map always holds the four categories.
C35_OwnCategoryOnly ==
    [][/\ DOMAIN timed_messages' = TimedMessage
       /\ \A m \in ReaderMessages :
            ReadStep(m) =>
              \A c \in TimedMessage :
                /\ Counted(timed_messages'[c]) = Counted(timed_messages[c]) + Added(m, c)
                /\ Added(m, c) = 0 => timed_messages'[c] = timed_messages[c]
                /\ (Added(m, c) > 0 /\ timed_messages[c].kind = "NoneReceived")
                     => timed_messages'[c].start = now]_vars

\* A block, an addr of two and an addrv2 of one have been read: one block,
\* three addresses and nothing else.
C35_Witness ==
    /\ Len(recorded) = 3
    /\ Counted(timed_messages["Block"]) = 1
    /\ Counted(timed_messages["Addr"]) = 3
    /\ timed_messages["BlockHeaders"] = NoneReceived
    /\ timed_messages["CFilters"] = NoneReceived

\* An addr with an empty list has been read and nothing is counted.
EmptyAddrRead ==
    /\ ret.op = "read_message"
    /\ ret.msg = <<Addr(0)>>
    /\ \A c \in TimedMessage : timed_messages[c] = NoneReceived

\* The Ping is on the wire and Waiting is not stored yet.
PingUnrecorded == writer.pc = "pinged"

\* The step is the Pong arm of the reader, or a liveness query.
PongReadStep ==
    /\ ret'.op = "read_message"
    /\ ret'.input # <<>>
    /\ ret'.input[1].cmd = "pong"
    /\ UNCHANGED WriterSide
LivenessQueryStep == ret'.op = "ping_timed_out" /\ UNCHANGED WriterSide

\* C31: in no interleaving does the reader process a Pong, or the metrics
\* handle read the liveness state, between the write of a Ping and the
\* store of Waiting; so a Pong read for the nonce of the last Ping on the
\* wire finds Waiting with that nonce, or a state that was already
\* confirmed, and never the unanswered LastReceived the Ping was sent from.
C31_PingAndWaitingAtomic ==
    [][/\ (PongReadStep \/ LivenessQueryStep) => ~PingUnrecorded
       /\ (PongReadStep /\ Probes # {}
              /\ written[Len(written)].probe
              /\ ret'.input[1].nonce = written[Len(written)].msg.nonce
              /\ outbound_ping_state.kind = "Waiting")
            => /\ outbound_ping_state.nonce = ret'.input[1].nonce
               /\ outbound_ping_state' = LastReceived(now)]_vars

\* The Pong for the Ping on the wire has been read and has confirmed it.
C31_Witness ==
    /\ Probes # {}
    /\ written[Len(written)].probe
    /\ ret.op = "read_message"
    /\ ret.input = <<Pong(written[Len(written)].msg.nonce)>>
    /\ outbound_ping_state.kind = "LastReceived"
    /\ outbound_ping_state.then > 0

\* The window the lock covers exists: the Ping is written, the state is
\* still LastReceived, and time passes before Waiting is stored.
WindowOpen ==
    /\ PingUnrecorded
    /\ outbound_ping_state.kind = "LastReceived"
    /\ now = MaxTime

\* The lock is poisoned.
Poisoned == lock(writer) = "poisoned"

QueriedWhilePoisoned ==
    /\ Poisoned
    /\ ret.op = "ping_timed_out"
    /\ ~ret.flag
    /\ now - outbound_ping_state.then > ret.timeout

\* The actor is the only thread that poisons the lock, and it does so
\* from LastReceived: it never meets a failed acquisition itself, and the
\* state a poisoned lock guards is never Waiting.
PoisonedFromLastReceived ==
    Poisoned => outbound_ping_state.kind = "LastReceived"

====
